---------------------------- MODULE Spec2Model ----------------------------
(***************************************************************************)
(* A model of the FastCampus crawlers:                                     *)
(*   - IncrementalCrawler   (src/fastcampus_incremental.py)                *)
(*   - SimpleParallelCrawler (src/fastcampus.py)                           *)
(* The model follows one output directory through a sequence of runs of    *)
(* one of the two crawlers against an upstream site that may change        *)
(* between runs.  Field names are ASCII renderings of the Korean JSON keys *)
(* of the source:                                                          *)
(*   course_link = 강의링크, course_name = 강의명, course_title = 강의제목,    *)
(*   main_category = 메인카테고리, main_category_link = 메인카테고리링크,       *)
(*   collected_at = 수집일시, extracted_text = 추출된_텍스트,                  *)
(*   sub_category = 하위카테고리, sub_category_link = 하위카테고리링크.         *)
(***************************************************************************)
EXTENDS Integers, Sequences, FiniteSets, TLC

VARIABLES
    crawler,            \* "incr" (IncrementalCrawler) or "full" (SimpleParallelCrawler)
    site,               \* what the upstream site currently serves
    files,              \* json_files/: data type -> [exists, data]
    run_log,            \* incremental_logs/: the log record of the last save
    runs,               \* number of runs started so far; the wall clock of 수집일시
    pc,                 \* position of the pipeline driver inside run(); "aborted":
                        \* run() ended without the save step; "hung": the driver
                        \* is in a loop it never leaves
    seed_loaded,        \* what _safe_page_load(base_url) returned in this run
    previous_data,      \* self.previous_data
    current_data,       \* self.current_data / self.data
    incremental_stats,  \* self.incremental_stats
    is_first_run,       \* self.is_first_run
    seen_urls,          \* self.seen_urls, shared by every worker thread
    tasks,              \* the futures of the active ThreadPoolExecutor
    driver_i,           \* index of the future the driver waits on next
    error_count,        \* number of _log_error calls of this run for failed page
                        \* loads and failed futures
    call,               \* a call of one of the pure functions, taken on its own
    returned            \* what that call returned

vars == << crawler, site, files, run_log, runs, pc, seed_loaded,
           previous_data, current_data, incremental_stats, is_first_run,
           seen_urls, tasks, driver_i, error_count, call, returned >>

\* the state of the crawler itself
crawler_vars == << crawler, site, files, run_log, runs, pc, seed_loaded,
                   previous_data, current_data, incremental_stats,
                   is_first_run, seen_urls, tasks, driver_i, error_count >>

-----------------------------------------------------------------------------
(* Bounds of the model *)

\* number of runs of the crawler that are followed
MaxRuns == 2
\* number of tasks per stage that fail: the page load fails on every attempt,
\* or the driver's wait for the result times out
MaxFailures == 1

-----------------------------------------------------------------------------
(* Program constants *)

\* retries=3 of _safe_page_load
RETRIES == 3
\* MAX_WORKERS of IncrementalCrawler and of SimpleParallelCrawler
MAX_WORKERS == [incr |-> 4, full |-> 12]
\* max_courses=20 handed to the incremental listing tasks
MAX_COURSES_INCR == 20
\* _validate_data: len(d) == 9 main categories
VALID_MAIN_COUNT == 9
\* _validate_data: len(d) >= 40 subcategories
VALID_SUB_MIN == 40
\* sample_size = min(5, len(existing_categories)) of _check_existing_courses
SAMPLE_SIZE == 5

\* SimpleParallelCrawler.MIN_IMAGE_SIZE, in bytes
MIN_IMAGE_SIZE == 1000
\* SimpleParallelCrawler.MAX_THUMBNAILS
MAX_THUMBNAILS == 2

DataTypes == {"main_categories", "sub_categories", "courses", "course_details"}

\* MAIN_CATEGORIES (ASCII renderings of the nine names)
MAIN_CATEGORIES ==
    {"AI TECH", "AI CREATIVE", "AI/PRODUCTIVITY", "DEV/DATA", "DESIGN",
     "VIDEO/3D", "FINANCE", "DRAWING", "BUSINESS"}

\* the placeholder title "제목 없음"
NoTitle == "NO_TITLE"
\* Python's None as a parent category
None == "None"

-----------------------------------------------------------------------------
(* URLs.  A raw href is root-relative ("/x") or absolute                    *)
(* ("https://fastcampus.co.kr/x"); both name the page x.                    *)

Rel(p) == [form |-> "rel", path |-> p]
Abs(p) == [form |-> "abs", path |-> p]
\* the default '' of item.get(key, '')
EmptyUrl == [form |-> "none", path |-> ""]

\* if url.startswith('/'): url = urljoin(self.base_url, url)
JoinBase(url) == IF url.form = "rel" THEN Abs(url.path) ELSE url

\* '/event_online_' in url
EventPaths == {"E"}
IsEventUrl(url) == url.path \in EventPaths

-----------------------------------------------------------------------------
(* The upstream site                                                        *)

Titles == {"t1", "t2"}

\* navOk : the category menu opens and its links are found
\* dupSub: the menu links subcategory c1 twice, once root-relative, once absolute
\* sub2  : the menu has subcategory c2
\* titleA: the title shown for course A
\* endless: the page of subcategory c2 grows whenever it is scrolled to its end
\* (the sites followed have at most two subcategory links with courses)
Sites ==
    { s \in [navOk : BOOLEAN, dupSub : BOOLEAN, sub2 : BOOLEAN, titleA : Titles,
             endless : BOOLEAN] :
        /\ ~s.navOk => (~s.dupSub /\ ~s.sub2 /\ s.titleA = "t1")
        /\ ~(s.dupSub /\ s.sub2)
        /\ s.endless => s.sub2 }

\* _scroll_page on this page never finds new_height == last_height
EndlessPage(s, url) == s.endless /\ url.path = "c2"

\* page.locator(SELECTORS['main_category']).all(), as (text, href)
MainLinks(s) ==
    IF s.navOk
    THEN << [name |-> "AI TECH", href |-> Rel("m1")],
            [name |-> "EVENT",   href |-> Rel("m9")] >>
    ELSE << >>

\* page.locator(SELECTORS['sub_category']).all(), as (text, href, text of the
\* ancestor container's main link, None when there is no such ancestor)
SubLinks(s) ==
    IF s.navOk
    THEN << [name |-> "Sub1", href |-> Rel("c1"), parent |-> "AI TECH"] >>
         \o (IF s.dupSub
             THEN << [name |-> "Sub1", href |-> Abs("c1"), parent |-> "AI TECH"] >>
             ELSE << >>)
         \o (IF s.sub2
             THEN << [name |-> "Sub2", href |-> Rel("c2"), parent |-> "AI TECH"] >>
             ELSE << >>)
         \o << [name |-> "Promo", href |-> Rel("c9"), parent |-> None] >>
    ELSE << >>

\* the course cards of a subcategory page, as (href, title text)
Cards(s, url) ==
    IF url.path = "c1"
    THEN << [href |-> Rel("A"), title |-> s.titleA] >>
    ELSE IF url.path = "c2"
    THEN << [href |-> Abs("A"), title |-> s.titleA],
            [href |-> Rel("B"), title |-> NoTitle] >>
    ELSE << >>

\* the title and text found on a course page
DetailPage(s, url) ==
    [title |-> IF url.path = "A" THEN s.titleA ELSE "tB", text |-> "body"]

-----------------------------------------------------------------------------
(* Records, and the pure functions of the change detector and the merge      *)

Range(seq) == { seq[i] : i \in DOMAIN seq }

\* dict.get(key, default)
Get(item, key, default) == IF key \in DOMAIN item THEN item[key] ELSE default

EmptyData == [t \in DataTypes |-> << >>]
ZeroStats == [t \in DataTypes |->
                 [new |-> 0, updated |-> 0, removed |-> 0, unchanged |-> 0]]
NoFiles == [t \in DataTypes |-> [exists |-> FALSE, data |-> << >>]]
NoLog == [exists |-> FALSE, first_run |-> FALSE, stats |-> ZeroStats]
\* no pure function is called on its own, or the call has not returned
NoCall == [op |-> "none"]

\* the JSON keys in the order json.dumps(sort_keys=True) writes them
KeyOrder ==
    << "course_link", "course_name", "course_title", "main_category",
       "main_category_link", "collected_at", "extracted_text", "sub_category",
       "sub_category_link" >>

\* json.dumps(content, sort_keys=True): the (key, value) pairs in key order
SortedDump(content) ==
    LET HasKey(k) == k \in DOMAIN content
        keys == SelectSeq(KeyOrder, HasKey)
    IN  [i \in 1..Len(keys) |-> << keys[i], content[keys[i]] >>]

\* md5 of the sorted dump; md5 is taken to be collision free, so the digest is
\* represented by the text it digests
_generate_content_hash(content) == SortedDump(content)

\* A dict with its insertion order is the sequence of its (key, value) pairs,
\* the keys distinct; the records of the state machine are dicts taken without
\* that order.
PairKeys(pairs) == { pairs[i][1] : i \in DOMAIN pairs }

\* the dict as a record
AsRecord(pairs) ==
    [k \in PairKeys(pairs) |-> (CHOOSE p \in Range(pairs) : p[1] = k)[2]]

\* the place of a key in the order sort_keys puts the keys in
KeyRank(k) == CHOOSE i \in DOMAIN KeyOrder : KeyOrder[i] = k

\* json.dumps(content, sort_keys=..., ensure_ascii=False): the pairs in the
\* order they are written
json_dumps(pairs, sort_keys) ==
    IF sort_keys
    THEN [i \in DOMAIN pairs |->
            CHOOSE p \in Range(pairs) :
                Cardinality({ q \in Range(pairs) : KeyRank(q[1]) < KeyRank(p[1]) }) = i - 1]
    ELSE pairs

\* the hash of a dump made without sort_keys
ContentHashInsertionOrder(pairs) == json_dumps(pairs, FALSE)

\* _generate_content_hash of a dict given with its insertion order (md5 of
\* the dump, represented by the dump)
ContentHashOfDict(pairs) == json_dumps(pairs, TRUE)

\* the URL an item is compared by
ItemUrl(data_type, item) ==
    IF data_type \in {"main_categories", "sub_categories"}
    THEN Get(item, "main_category_link", Get(item, "sub_category_link", EmptyUrl))
    ELSE Get(item, "course_link", EmptyUrl)

UrlsOf(data_type, data) == { ItemUrl(data_type, data[i]) : i \in DOMAIN data }

\* next((p for p in previous_data if p.get('강의링크', '') == url), None)
FirstIndexWithLink(data, url) ==
    LET hits == { i \in DOMAIN data : Get(data[i], "course_link", EmptyUrl) = url }
    IN  IF hits = {} THEN 0 ELSE CHOOSE i \in hits : \A j \in hits : i <= j

\* the content comparison that decides `updated`
ContentDiffers(item, previous_item) ==
    _generate_content_hash(item) # _generate_content_hash(previous_item)

\* the content comparison made for the items of every data type, each under
\* the link field of its type
UpdatedItemsAnyType(data_type, cur, prev, unchanged_items) ==
    { ItemUrl(data_type, cur[i]) : i \in
        { j \in DOMAIN cur :
            /\ ItemUrl(data_type, cur[j]) \in unchanged_items
            /\ \E k \in DOMAIN prev :
                  /\ ItemUrl(data_type, prev[k]) = ItemUrl(data_type, cur[j])
                  /\ ContentDiffers(cur[j], prev[k]) } }

\* updated_items of _compare_data_changes: filled for the courses and the
\* course details only
UpdatedItems(data_type, cur, prev, unchanged_items) ==
    IF data_type \in {"courses", "course_details"}
    THEN { Get(cur[i], "course_link", EmptyUrl) : i \in
             { j \in DOMAIN cur :
                 LET url == Get(cur[j], "course_link", EmptyUrl)
                     k   == FirstIndexWithLink(prev, url)
                 IN  /\ url \in unchanged_items
                     /\ k # 0
                     /\ ContentDiffers(cur[j], prev[k]) } }
    ELSE {}

\* the four sets with `unchanged` left as the whole intersection
CompareChangesKeepCommon(data_type, cur, prev) ==
    LET current_urls  == UrlsOf(data_type, cur)
        previous_urls == UrlsOf(data_type, prev)
        common        == current_urls \cap previous_urls
    IN  [new       |-> current_urls \ previous_urls,
         updated   |-> IF data_type \in {"courses", "course_details"}
                       THEN { u \in common :
                                \E i \in DOMAIN cur :
                                    /\ Get(cur[i], "course_link", EmptyUrl) = u
                                    /\ ContentDiffers(cur[i],
                                           prev[FirstIndexWithLink(prev, u)]) }
                       ELSE {},
         removed   |-> previous_urls \ current_urls,
         unchanged |-> common]

\* the four sets _compare_data_changes returns
_compare_data_changes(data_type, cur, prev) ==
    LET current_urls    == UrlsOf(data_type, cur)
        previous_urls   == UrlsOf(data_type, prev)
        new_items       == current_urls \ previous_urls
        removed_items   == previous_urls \ current_urls
        unchanged_items == current_urls \cap previous_urls
        updated_items   == UpdatedItems(data_type, cur, prev, unchanged_items)
    IN  [new       |-> new_items,
         updated   |-> updated_items,
         removed   |-> removed_items,
         unchanged |-> unchanged_items \ updated_items]

\* the counts _compare_data_changes stores in self.incremental_stats[data_type]
StatsOf(data_type, cur, prev) ==
    LET current_urls    == UrlsOf(data_type, cur)
        previous_urls   == UrlsOf(data_type, prev)
        changes         == _compare_data_changes(data_type, cur, prev)
    IN  [new       |-> Cardinality(current_urls \ previous_urls),
         updated   |-> Cardinality(changes.updated),
         removed   |-> Cardinality(previous_urls \ current_urls),
         unchanged |-> Cardinality(current_urls \cap previous_urls)
                         - Cardinality(changes.updated)]

\* the merge without the `강의링크 not in existing_urls` filter
MergeTypeAppendAll(data_type, prev, cur) ==
    IF data_type = "courses" THEN prev \o cur ELSE cur

\* the merge of _save_incremental_data for one data type
MergeType(data_type, prev, cur) ==
    IF data_type = "courses"
    THEN LET existing_urls == { Get(prev[i], "course_link", EmptyUrl) : i \in DOMAIN prev }
             IsNew(item) == Get(item, "course_link", EmptyUrl) \notin existing_urls
         IN  prev \o SelectSeq(cur, IsNew)
    ELSE cur

\* the merge that persists the run's data alone, for the courses too
MergedDataCurrentOnly(prev, cur) == [t \in DataTypes |-> cur[t]]

\* merged_data of _save_incremental_data
MergedData(prev, cur) ==
    [t \in DataTypes |-> MergeType(t, prev[t], cur[t])]

\* the snapshot file of each data type
FileName(data_type) ==
    CASE data_type = "main_categories" -> "main_categories.json"
      [] data_type = "sub_categories"  -> "sub_categories.json"
      [] data_type = "courses"         -> "courses_list.json"
      [] data_type = "course_details"  -> "course_details.json"

\* filename.replace('.json', '')
StripJson(filename) ==
    CASE filename = "main_categories.json" -> "main_categories"
      [] filename = "sub_categories.json"  -> "sub_categories"
      [] filename = "courses_list.json"    -> "courses_list"
      [] filename = "course_details.json"  -> "course_details"

\* SimpleParallelCrawler._validate_data; a data type without a validator is valid
_validate_data(data_type, data) ==
    IF data = << >> THEN FALSE
    ELSE IF data_type = "main_categories"
    THEN /\ Len(data) = VALID_MAIN_COUNT
         /\ \A i \in DOMAIN data : Get(data[i], "main_category", "") # ""
    ELSE IF data_type = "sub_categories"
    THEN /\ Len(data) >= VALID_SUB_MIN
         /\ \A i \in DOMAIN data : Get(data[i], "sub_category", "") # ""
    ELSE IF data_type = "courses"
    THEN \A i \in DOMAIN data : Get(data[i], "course_title", None) # NoTitle
    ELSE IF data_type = "course_details"
    THEN \A i \in DOMAIN data : Get(data[i], "course_name", None) # NoTitle
    ELSE TRUE

\* SimpleParallelCrawler._save_json: the file after the call
_save_json(file, data, filename) ==
    IF data # << >> /\ _validate_data(StripJson(filename), data)
    THEN [exists |-> TRUE, data |-> data]
    ELSE file

-----------------------------------------------------------------------------
(* Page loading and the sequential extraction stages                         *)

\* the retry loop of _safe_page_load from attempt number n (0-based) on;
\* outcomes[n] tells whether page.goto of attempt n succeeded, wait_ok[n]
\* whether page.wait_for_timeout(3000) in the handler of the failed attempt n
\* returned (it raises when the browser is gone, and no handler is around
\* it).  Yields the returned value, whether the call raised instead of
\* returning, the attempts made and the backoff waits begun
RECURSIVE SafeLoadLoop(_, _, _, _)
SafeLoadLoop(outcomes, wait_ok, n, waits) ==
    IF n >= RETRIES
    THEN [ok |-> FALSE, raised |-> FALSE, attempts |-> n, waits |-> waits]
    ELSE IF outcomes[n]
    THEN [ok |-> TRUE, raised |-> FALSE, attempts |-> n + 1, waits |-> waits]
    ELSE IF n < RETRIES - 1
    THEN IF wait_ok[n]
         THEN SafeLoadLoop(outcomes, wait_ok, n + 1, waits + 1)
         ELSE [ok |-> FALSE, raised |-> TRUE, attempts |-> n + 1, waits |-> waits + 1]
    ELSE SafeLoadLoop(outcomes, wait_ok, n + 1, waits)

\* the backoff waits of a load whose browser stays up
WaitsReturn == [n \in 0..(RETRIES - 2) |-> TRUE]

\* _safe_page_load(page, url, retries=3) as the stages of the state machine
\* call it: the browser stays up during the load
_safe_page_load(outcomes) == SafeLoadLoop(outcomes, WaitsReturn, 0, 0)

\* the outcomes the attempts of one page load can have: the attempts fail up
\* to some attempt (attempts after a success are never made, TRUE stands for them)
LoadOutcomes ==
    { o \in [0..(RETRIES - 1) -> BOOLEAN] :
        \A m, n \in 0..(RETRIES - 1) : (m < n /\ o[m]) => o[n] }

\* run() without the `return` after the failed load of the seed page
AfterSeedNoReturn(loaded) == "main"

\* run(): if not self._safe_page_load(page, self.base_url): return
AfterSeed(loaded) == IF loaded THEN "main" ELSE "aborted"

\* number of _log_error calls made for a page load that finally failed:
\* the full crawler logs inside _safe_page_load and again in its caller
LoadFailureLogs(who, caller_logs) ==
    IF who = "full" THEN 1 + caller_logs ELSE caller_logs

\* the loop of _extract_main_categories over the links, from link i on
RECURSIVE MainCategoryLoop(_, _, _, _, _)
MainCategoryLoop(links, i, seen, acc, now) ==
    IF i > Len(links) THEN acc
    ELSE LET name == links[i].name
             url  == links[i].href
         IN  IF name # "" /\ name \in MAIN_CATEGORIES /\ name \notin seen
             THEN MainCategoryLoop(links, i + 1, seen \cup {name},
                      Append(acc, [main_category      |-> name,
                                   main_category_link |-> JoinBase(url),
                                   collected_at       |-> now]), now)
             ELSE MainCategoryLoop(links, i + 1, seen, acc, now)

\* whether a subcategory link is skipped: if not name or not url or url in seen_urls
SubLinkSkipped(link, seen) == link.name = "" \/ link.href \in seen

\* the loop of _extract_sub_categories over the links, from link i on;
\* yields the new seen_urls and the subcategories appended
RECURSIVE SubCategoryLoop(_, _, _, _, _)
SubCategoryLoop(links, i, seen, acc, now) ==
    IF i > Len(links) THEN [seen |-> seen, data |-> acc]
    ELSE LET name   == links[i].name
             url    == links[i].href
             parent == links[i].parent
         IN  IF SubLinkSkipped(links[i], seen)
             THEN SubCategoryLoop(links, i + 1, seen, acc, now)
             ELSE IF parent # None
             THEN SubCategoryLoop(links, i + 1, seen \cup {url},
                      Append(acc, [main_category     |-> parent,
                                   sub_category      |-> name,
                                   sub_category_link |-> JoinBase(url),
                                   collected_at      |-> now]), now)
             ELSE SubCategoryLoop(links, i + 1, seen \cup {url}, acc, now)

-----------------------------------------------------------------------------
(* The worker tasks of a stage's ThreadPoolExecutor                          *)

\* a future of the Listings stage (arg: the subcategory) or of the Details
\* stage (arg: the course link).
\*   status     : "load" (in _safe_page_load), "scroll" (in the `while True`
\*                of _scroll_page on a page that keeps growing: no step of
\*                the loop leaves it), "check" (before the seen_urls
\*                test of card idx), "add" (test passed, before seen_urls.add),
\*                "done" (returned)
\*   collected  : collected_courses, or the one detail record
\*   load_failed: _safe_page_load returned False
\*   consumed   : what the driver did with future.result(): "no", "taken",
\*                "timeout"
NewTask(arg) ==
    [arg |-> arg, status |-> "load", idx |-> 1, collected |-> << >>,
     load_failed |-> FALSE, consumed |-> "no"]

\* cards[:max_courses] of the incremental crawler; the full crawler passes None
TaskCards(who, s, subcategory) ==
    LET cards == Cards(s, subcategory.sub_category_link)
    IN  IF who = "incr" /\ Len(cards) > MAX_COURSES_INCR
        THEN SubSeq(cards, 1, MAX_COURSES_INCR)
        ELSE cards

\* the executor runs at most MAX_WORKERS futures at a time, in submission order
HasWorker(i) ==
    Cardinality({ j \in 1..(i - 1) : tasks[j].status # "done" }) < MAX_WORKERS[crawler]

\* the card test: if '/event_online_' in url or url in self.seen_urls: continue
CardSkipped(url, seen) == IsEventUrl(url) \/ url \in seen

\* course_data of _extract_courses_from_subcategory
CourseData(subcategory, card, url, now) ==
    [main_category |-> subcategory.main_category,
     sub_category  |-> subcategory.sub_category,
     course_title  |-> card.title,
     course_link   |-> url,
     collected_at  |-> now]

\* the record _extract_course_detail returns
DetailData(s, url, now) ==
    [course_name    |-> DetailPage(s, url).title,
     course_link    |-> url,
     collected_at   |-> now,
     extracted_text |-> DetailPage(s, url).text]

\* the loop of _extract_courses_from_subcategory over the cards, run by one
\* thread on its own, from card i on; a card without href is passed over
\* (`if not url: continue`)
RECURSIVE CardLoop(_, _, _, _, _, _)
CardLoop(cards, i, seen, acc, subcategory, now) ==
    IF i > Len(cards) THEN [seen |-> seen, collected |-> acc]
    ELSE LET url == JoinBase(cards[i].href)
         IN  IF cards[i].href = EmptyUrl \/ CardSkipped(url, seen)
             THEN CardLoop(cards, i + 1, seen, acc, subcategory, now)
             ELSE CardLoop(cards, i + 1, seen \cup {url},
                           Append(acc, CourseData(subcategory, cards[i], url, now)),
                           subcategory, now)

\* the loops of _collect_thumbnails over the images the selectors find on a
\* card, from image i on; an image is (url, fetched, size): its normalised
\* source URL (a valid image URL), whether _download_image returned a
\* response, and len(response.content).  Yields the positions of the images
\* written to disk, in the order they were written
RECURSIVE CollectThumbnailsLoop(_, _, _, _)
CollectThumbnailsLoop(images, i, saved_urls, saved) ==
    IF i > Len(images) \/ Len(saved) >= MAX_THUMBNAILS THEN saved
    ELSE IF images[i].url \in saved_urls
    THEN CollectThumbnailsLoop(images, i + 1, saved_urls, saved)
    ELSE IF images[i].fetched /\ images[i].size > MIN_IMAGE_SIZE
    THEN CollectThumbnailsLoop(images, i + 1, saved_urls \cup {images[i].url},
                               Append(saved, i))
    ELSE CollectThumbnailsLoop(images, i + 1, saved_urls, saved)

\* _collect_thumbnails(card, course_url); thumbnail_dir.mkdir is outside the
\* try of the loops, an error of it leaves the function
_collect_thumbnails(images, mkdir_ok) ==
    IF mkdir_ok
    THEN [raised |-> FALSE, saved |-> CollectThumbnailsLoop(images, 1, {}, << >>)]
    ELSE [raised |-> TRUE, saved |-> << >>]

\* a card whose course is collected only when its thumbnails were
ThumbnailCardDropsOnError(subcategory, card, url, images, mkdir_ok, now) ==
    LET t == _collect_thumbnails(images, mkdir_ok)
    IN  [collected |-> IF t.raised \/ t.saved = << >> THEN << >>
                       ELSE << CourseData(subcategory, card, url, now) >>,
         saved     |-> t.saved,
         counted   |-> IF t.raised THEN 0 ELSE 1,
         errors    |-> IF t.raised THEN 1 ELSE 0]

\* the body of the card loop of the full crawler for a card that passed the
\* seen_urls test: collected_courses.append(course_data), then
\* _collect_thumbnails, then collected += 1; an exception of _collect_thumbnails
\* is logged by the loop's handler and the loop goes on
ThumbnailCard(subcategory, card, url, images, mkdir_ok, now) ==
    LET t == _collect_thumbnails(images, mkdir_ok)
    IN  [collected |-> << CourseData(subcategory, card, url, now) >>,
         saved     |-> t.saved,
         counted   |-> IF t.raised THEN 0 ELSE 1,
         errors    |-> IF t.raised THEN 1 ELSE 0]

\* the card loop of _extract_courses_from_subcategory of the full crawler
\* when it is called with a limit (max_courses is not None), from card i on:
\* `if collected >= max_courses: break` is tested before each card, and
\* `collected` counts the cards whose _collect_thumbnails returned.  A card
\* carries its href and whether thumbnail_dir.mkdir succeeds for it (its
\* images are left out).  Yields seen_urls, collected_courses, `collected`
\* and the errors logged
RECURSIVE LimitedCardLoop(_, _, _, _, _, _, _, _)
LimitedCardLoop(cards, i, seen, acc, collected, max_courses, subcategory, now) ==
    IF i > Len(cards) \/ collected >= max_courses
    THEN [seen |-> seen, collected |-> acc, counted |-> collected]
    ELSE LET url == JoinBase(cards[i].href)
         IN  IF cards[i].href = EmptyUrl \/ CardSkipped(url, seen)
             THEN LimitedCardLoop(cards, i + 1, seen, acc, collected, max_courses,
                                  subcategory, now)
             ELSE LET r == ThumbnailCard(subcategory, cards[i], url, << >>,
                                         cards[i].mkdir_ok, now)
                  IN  LimitedCardLoop(cards, i + 1, seen \cup {url},
                                      acc \o r.collected, collected + r.counted,
                                      max_courses, subcategory, now)

\* the same call of the incremental crawler: enumerate(cards[:max_courses])
SlicedCardLoop(cards, seen, max_courses, subcategory, now) ==
    LET head == IF Len(cards) > max_courses THEN SubSeq(cards, 1, max_courses)
                ELSE cards
        r    == CardLoop(head, 1, seen, << >>, subcategory, now)
    IN  [seen |-> r.seen, collected |-> r.collected, counted |-> Len(r.collected)]

\* position after card idx has been handled
AfterCard(t, cards) ==
    IF t.idx + 1 > Len(cards)
    THEN [t EXCEPT !.idx = t.idx + 1, !.status = "done"]
    ELSE [t EXCEPT !.idx = t.idx + 1, !.status = "check"]

\* a driver that appends every result of a pool to the courses
PoolTypeCourses == "courses"

\* the data type the stage of the active pool fills
PoolType == IF pc = "listings_pool" THEN "courses" ELSE "course_details"

\* every current subcategory is a target, whatever the snapshot holds
ListingTargetsAll(who, cur, prev) == cur

\* new_subcategories of _collect_courses_incremental; the full crawler submits
\* every subcategory
ListingTargets(who, cur, prev) ==
    IF who = "incr"
    THEN LET IsNew(c) == \A i \in DOMAIN prev :
                            Get(prev[i], "sub_category_link", EmptyUrl) # c.sub_category_link
         IN  SelectSeq(cur, IsNew)
    ELSE cur

\* target_courses of _collect_course_details_incremental; the full crawler
\* submits every course
DetailTargets(who, cur, prev) ==
    IF who = "incr"
    THEN LET changes == _compare_data_changes("courses", cur, prev)
             InNew(c) == c.course_link \in changes.new
             InUpdated(c) == c.course_link \in changes.updated
         IN  SelectSeq(cur, InNew) \o SelectSeq(cur, InUpdated)
    ELSE cur

-----------------------------------------------------------------------------
(* The state machine                                                         *)

Init ==
    /\ crawler \in {"incr", "full"}
    /\ site \in Sites
    /\ files = NoFiles
    /\ run_log = NoLog
    /\ runs = 0
    /\ pc = "idle"
    /\ seed_loaded = "pending"
    /\ previous_data = EmptyData
    /\ current_data = EmptyData
    /\ incremental_stats = ZeroStats
    /\ is_first_run = FALSE
    /\ seen_urls = {}
    /\ tasks = << >>
    /\ driver_i = 1
    /\ error_count = 0
    /\ call = NoCall
    /\ returned = NoCall

Resting == pc \in {"idle", "done", "aborted"}

\* the site changes between two runs
UpstreamChange ==
    /\ pc \in {"done", "aborted"}
    /\ runs < MaxRuns
    /\ \E s \in Sites \ {site} : site' = s
    /\ UNCHANGED << crawler, files, run_log, runs, pc, seed_loaded,
                    previous_data, current_data, incremental_stats,
                    is_first_run, seen_urls, tasks, driver_i, error_count >>
    /\ UNCHANGED << call, returned >>

\* json.load(f) of a snapshot file returns: the files the crawlers write
\* parse; a file found on disk can hold text that does not (parses = FALSE)
Parses(file) == Get(file, "parses", TRUE)

\* a load that takes a file it cannot parse for a missing one
LoadedPreviousUnparsedFirst(fs) ==
    [data      |-> [t \in DataTypes |->
                      IF fs[t].exists /\ Parses(fs[t]) THEN fs[t].data ELSE << >>],
     first_run |-> \E t \in DataTypes : ~fs[t].exists \/ ~Parses(fs[t])]

\* self.previous_data and self.is_first_run after _load_previous_data
LoadedPrevious(fs) ==
    [data      |-> [t \in DataTypes |->
                      IF fs[t].exists /\ Parses(fs[t]) THEN fs[t].data ELSE << >>],
     first_run |-> \E t \in DataTypes : ~fs[t].exists]

\* a new process: __init__, then run() up to the load of the seed page
\* (the incremental crawler loads the previous snapshot first)
StartRun ==
    /\ Resting
    /\ runs < MaxRuns
    /\ runs' = runs + 1
    /\ pc' = "seed"
    /\ seed_loaded' = "pending"
    /\ current_data' = EmptyData
    /\ incremental_stats' = ZeroStats
    /\ seen_urls' = {}
    /\ tasks' = << >>
    /\ driver_i' = 1
    /\ error_count' = 0
    /\ IF crawler = "incr"
       THEN /\ previous_data' = LoadedPrevious(files).data
            /\ is_first_run' = LoadedPrevious(files).first_run
       ELSE /\ previous_data' = EmptyData
            /\ is_first_run' = FALSE
    /\ UNCHANGED << crawler, site, files, run_log >>
    /\ UNCHANGED << call, returned >>

\* _safe_page_load(page, self.base_url) in run(), and the return of run() when
\* the load failed
LoadSeedPage ==
    /\ pc = "seed"
    /\ \E outcomes \in LoadOutcomes :
         LET r == _safe_page_load(outcomes)
         IN  /\ seed_loaded' = IF r.ok THEN "ok" ELSE "failed"
             /\ pc' = AfterSeed(r.ok)
             /\ error_count' = IF r.ok THEN error_count
                               ELSE error_count + LoadFailureLogs(crawler, 1)
    /\ UNCHANGED << crawler, site, files, run_log, runs, previous_data,
                    current_data, incremental_stats, is_first_run, seen_urls,
                    tasks, driver_i >>
    /\ UNCHANGED << call, returned >>

\* _extract_main_categories, with the comparison the incremental crawler
\* makes at its end
ExtractMainCategories ==
    /\ pc = "main"
    /\ LET found == MainCategoryLoop(MainLinks(site), 1, {}, << >>, runs)
       IN  /\ current_data' = [current_data EXCEPT !["main_categories"] = @ \o found]
           /\ incremental_stats' =
                IF crawler = "incr"
                THEN [incremental_stats EXCEPT !["main_categories"] =
                        StatsOf("main_categories", current_data["main_categories"] \o found,
                                previous_data["main_categories"])]
                ELSE incremental_stats
    /\ pc' = "sub"
    /\ UNCHANGED << crawler, site, files, run_log, runs, seed_loaded,
                    previous_data, is_first_run, seen_urls, tasks, driver_i,
                    error_count >>
    /\ UNCHANGED << call, returned >>

\* _extract_sub_categories, with the comparison the incremental crawler makes
\* at its end
ExtractSubCategories ==
    /\ pc = "sub"
    /\ LET r == SubCategoryLoop(SubLinks(site), 1, seen_urls, << >>, runs)
       IN  /\ seen_urls' = r.seen
           /\ current_data' = [current_data EXCEPT !["sub_categories"] = @ \o r.data]
           /\ incremental_stats' =
                IF crawler = "incr"
                THEN [incremental_stats EXCEPT !["sub_categories"] =
                        StatsOf("sub_categories", current_data["sub_categories"] \o r.data,
                                previous_data["sub_categories"])]
                ELSE incremental_stats
    /\ pc' = IF crawler = "full" THEN "html" ELSE "listings"
    /\ UNCHANGED << crawler, site, files, run_log, runs, seed_loaded,
                    previous_data, is_first_run, tasks, driver_i, error_count >>
    /\ UNCHANGED << call, returned >>

\* the category pages the "HTML 저장" step of the full crawler loads
HtmlPages == Len(current_data["main_categories"]) + Len(current_data["sub_categories"])

\* one of the subcategory pages the step scrolls keeps growing
HtmlEndless ==
    \E i \in DOMAIN current_data["sub_categories"] :
        EndlessPage(site, current_data["sub_categories"][i].sub_category_link)

\* the "HTML 저장" step of the full crawler: every category page is loaded
\* and, when the load succeeded, scrolled and written as HTML; a load that
\* failed is logged by _safe_page_load and the page is passed over (the step
\* gets past a page that keeps growing only that way).  The collected data is
\* not touched
SaveCategoryHtml ==
    /\ pc = "html"
    /\ \E failed \in 0..HtmlPages :
         /\ failed <= MaxFailures
         /\ HtmlEndless => failed >= 1
         /\ error_count' = error_count + failed * LoadFailureLogs(crawler, 0)
    /\ pc' = "listings"
    /\ UNCHANGED << crawler, site, files, run_log, runs, seed_loaded,
                    previous_data, current_data, incremental_stats,
                    is_first_run, seen_urls, tasks, driver_i >>
    /\ UNCHANGED << call, returned >>

\* the "HTML 저장" step when the page that keeps growing has loaded: the
\* driver never leaves the `while True` of _scroll_page
SaveCategoryHtmlHangs ==
    /\ pc = "html"
    /\ HtmlEndless
    /\ pc' = "hung"
    /\ UNCHANGED << crawler, site, files, run_log, runs, seed_loaded,
                    previous_data, current_data, incremental_stats,
                    is_first_run, seen_urls, tasks, driver_i, error_count >>
    /\ UNCHANGED << call, returned >>

\* the "HTML 저장" step of the full crawler when _scroll_page or _save_html
\* raises on one of the pages (page.evaluate, page.content and the write of
\* the file are outside any try of the loop): the exception reaches the
\* `except Exception` of run(), which logs it, and run() ends without saving
SaveCategoryHtmlRaises ==
    /\ pc = "html"
    /\ HtmlPages > 0
    /\ \E failed \in 0..(HtmlPages - 1) :
         /\ failed <= MaxFailures
         /\ error_count' = error_count + failed * LoadFailureLogs(crawler, 0) + 1
    /\ pc' = "aborted"
    /\ UNCHANGED << crawler, site, files, run_log, runs, seed_loaded,
                    previous_data, current_data, incremental_stats,
                    is_first_run, seen_urls, tasks, driver_i >>
    /\ UNCHANGED << call, returned >>

\* the Listings stage submits its futures
SubmitListings ==
    /\ pc = "listings"
    /\ LET targets == ListingTargets(crawler, current_data["sub_categories"],
                                     previous_data["sub_categories"])
       IN  /\ tasks' = [i \in 1..Len(targets) |-> NewTask(targets[i])]
           /\ pc' = IF crawler = "incr" /\ targets = << >>
                    THEN "listings_finish" ELSE "listings_pool"
    /\ driver_i' = 1
    /\ UNCHANGED << crawler, site, files, run_log, runs, seed_loaded,
                    previous_data, current_data, incremental_stats,
                    is_first_run, seen_urls, error_count >>
    /\ UNCHANGED << call, returned >>

InPool == pc \in {"listings_pool", "details_pool"}

\* what the task logs itself when its page load finally failed: the tasks of
\* the full crawler call _log_error, those of the incremental crawler do not
TaskLoadFailureLogs(who) == LoadFailureLogs(who, IF who = "full" THEN 1 ELSE 0)

\* a task after its _safe_page_load returned ok
TaskAfterLoad(t, ok, who, s, now, stage) ==
    IF ~ok
    THEN [t EXCEPT !.status = "done", !.load_failed = TRUE]
    ELSE IF stage = "details_pool"
    THEN [t EXCEPT !.status = "done", !.collected = << DetailData(s, t.arg, now) >>]
    ELSE IF EndlessPage(s, t.arg.sub_category_link)
    THEN [t EXCEPT !.status = "scroll"]
    ELSE IF TaskCards(who, s, t.arg) = << >>
    THEN [t EXCEPT !.status = "done"]
    ELSE [t EXCEPT !.status = "check"]

\* tasks of the active stage that failed so far
FailedTasks ==
    { i \in DOMAIN tasks : tasks[i].load_failed \/ tasks[i].consumed = "timeout" }

\* a worker thread: the task's _safe_page_load (the page belongs to the task
\* alone); a Details task that loaded its page goes on to return its record
TaskLoadPage(i) ==
    /\ InPool
    /\ tasks[i].status = "load"
    /\ HasWorker(i)
    /\ \E outcomes \in LoadOutcomes :
         LET r == _safe_page_load(outcomes)
         IN  /\ r.ok \/ Cardinality(FailedTasks) < MaxFailures
             /\ tasks' = [tasks EXCEPT ![i] =
                            TaskAfterLoad(tasks[i], r.ok, crawler, site, runs, pc)]
             /\ error_count' = IF r.ok THEN error_count
                               ELSE error_count + TaskLoadFailureLogs(crawler)
    /\ UNCHANGED << crawler, site, files, run_log, runs, pc, seed_loaded,
                    previous_data, current_data, incremental_stats,
                    is_first_run, seen_urls, driver_i >>
    /\ UNCHANGED << call, returned >>

\* a worker thread of the Listings stage reads self.seen_urls for its next card
TaskCheckCard(i) ==
    /\ pc = "listings_pool"
    /\ tasks[i].status = "check"
    /\ LET cards == TaskCards(crawler, site, tasks[i].arg)
           url   == JoinBase(cards[tasks[i].idx].href)
       IN  tasks' = [tasks EXCEPT ![i] =
                       IF CardSkipped(url, seen_urls)
                       THEN AfterCard(tasks[i], cards)
                       ELSE [tasks[i] EXCEPT !.status = "add"]]
    /\ UNCHANGED << crawler, site, files, run_log, runs, pc, seed_loaded,
                    previous_data, current_data, incremental_stats,
                    is_first_run, seen_urls, driver_i, error_count >>
    /\ UNCHANGED << call, returned >>

\* the same thread, later: self.seen_urls.add(url) and the course is collected
TaskAddCourse(i) ==
    /\ pc = "listings_pool"
    /\ tasks[i].status = "add"
    /\ LET cards == TaskCards(crawler, site, tasks[i].arg)
           card  == cards[tasks[i].idx]
           url   == JoinBase(card.href)
       IN  /\ seen_urls' = seen_urls \cup {url}
           /\ tasks' = [tasks EXCEPT ![i] =
                          AfterCard([tasks[i] EXCEPT !.collected =
                                       Append(@, CourseData(tasks[i].arg, card, url, runs))],
                                    cards)]
    /\ UNCHANGED << crawler, site, files, run_log, runs, pc, seed_loaded,
                    previous_data, current_data, incremental_stats,
                    is_first_run, driver_i, error_count >>
    /\ UNCHANGED << call, returned >>

\* what the driver appends for a result: `if courses: extend`, `if detail: append`
Collected(data, result) == data \o result

\* the driver: future.result() of the next future returns
DriverResult ==
    /\ InPool
    /\ driver_i <= Len(tasks)
    /\ tasks[driver_i].status = "done"
    /\ current_data' = [current_data EXCEPT ![PoolType] =
                           Collected(@, tasks[driver_i].collected)]
    /\ tasks' = [tasks EXCEPT ![driver_i].consumed = "taken"]
    /\ driver_i' = driver_i + 1
    /\ UNCHANGED << crawler, site, files, run_log, runs, pc, seed_loaded,
                    previous_data, incremental_stats, is_first_run, seen_urls,
                    error_count >>
    /\ UNCHANGED << call, returned >>

\* the driver: future.result(timeout=...) raises TimeoutError while the task
\* is still running; the error is logged and the result is never read
DriverTimeout ==
    /\ InPool
    /\ driver_i <= Len(tasks)
    /\ tasks[driver_i].status # "done"
    /\ tasks[driver_i].status = "scroll" \/ Cardinality(FailedTasks) < MaxFailures
    /\ tasks' = [tasks EXCEPT ![driver_i].consumed = "timeout"]
    /\ driver_i' = driver_i + 1
    /\ error_count' = error_count + 1
    /\ UNCHANGED << crawler, site, files, run_log, runs, pc, seed_loaded,
                    previous_data, current_data, incremental_stats,
                    is_first_run, seen_urls >>
    /\ UNCHANGED << call, returned >>

\* a pool left without waiting for its futures: only the driver's loop over
\* the futures is through (shutdown(wait=False))
AllTasksDoneNoWait == \A i \in DOMAIN tasks : tasks[i].consumed # "no"

\* every future of the pool has finished: what shutdown(wait=True) waits for
AllTasksDone == \A i \in DOMAIN tasks : tasks[i].status = "done"

\* a driver that runs the Listings stage again after the Details pool
AfterPoolBack(stage, who) ==
    IF stage = "listings_pool"
    THEN (IF who = "incr" THEN "listings_finish" ELSE "details")
    ELSE "listings"

\* where the driver goes when the `with ThreadPoolExecutor` block is left
AfterPool(stage, who) ==
    IF stage = "listings_pool"
    THEN (IF who = "incr" THEN "listings_finish" ELSE "details")
    ELSE "save"

\* the end of the `with ThreadPoolExecutor` block: shutdown(wait=True) returns
\* once every future has finished
PoolExit ==
    /\ InPool
    /\ driver_i > Len(tasks)
    /\ AllTasksDone
    /\ pc' = AfterPool(pc, crawler)
    /\ UNCHANGED << crawler, site, files, run_log, runs, seed_loaded,
                    previous_data, current_data, incremental_stats,
                    is_first_run, seen_urls, tasks, driver_i, error_count >>
    /\ UNCHANGED << call, returned >>

\* sample_categories of _check_existing_courses: the first SAMPLE_SIZE current
\* subcategories whose link is in the previous snapshot
ExistingSample ==
    LET IsOld(c) == \E i \in DOMAIN previous_data["sub_categories"] :
                       Get(previous_data["sub_categories"][i], "sub_category_link", EmptyUrl)
                          = c.sub_category_link
        existing_categories == SelectSeq(current_data["sub_categories"], IsOld)
    IN  IF Len(existing_categories) > SAMPLE_SIZE
        THEN SubSeq(existing_categories, 1, SAMPLE_SIZE)
        ELSE existing_categories

\* _check_existing_courses on a sampled page that keeps growing and has
\* loaded: the driver never leaves the `while True` of _scroll_page
CheckExistingHangs ==
    /\ pc = "listings_finish"
    /\ \E i \in DOMAIN ExistingSample :
          EndlessPage(site, ExistingSample[i].sub_category_link)
    /\ pc' = "hung"
    /\ UNCHANGED << crawler, site, files, run_log, runs, seed_loaded,
                    previous_data, current_data, incremental_stats,
                    is_first_run, seen_urls, tasks, driver_i, error_count >>
    /\ UNCHANGED << call, returned >>

\* the rest of _collect_courses_incremental: _check_existing_courses (which
\* only logs card counts; a sampled page whose load failed is passed over)
\* and the comparison of the courses
FinishListings ==
    /\ pc = "listings_finish"
    /\ incremental_stats' = [incremental_stats EXCEPT !["courses"] =
            StatsOf("courses", current_data["courses"], previous_data["courses"])]
    /\ tasks' = << >>
    /\ driver_i' = 1
    /\ pc' = "details"
    /\ UNCHANGED << crawler, site, files, run_log, runs, seed_loaded,
                    previous_data, current_data, is_first_run, seen_urls,
                    error_count >>
    /\ UNCHANGED << call, returned >>

\* the Details stage submits its futures; the incremental crawler compares the
\* courses again and returns at once when nothing is new or updated
SubmitDetails ==
    /\ pc = "details"
    /\ LET targets == DetailTargets(crawler, current_data["courses"],
                                    previous_data["courses"])
       IN  /\ tasks' = [i \in 1..Len(targets) |-> NewTask(targets[i].course_link)]
           /\ pc' = IF crawler = "incr" /\ targets = << >>
                    THEN "save" ELSE "details_pool"
    /\ incremental_stats' =
         IF crawler = "incr"
         THEN [incremental_stats EXCEPT !["courses"] =
                 StatsOf("courses", current_data["courses"], previous_data["courses"])]
         ELSE incremental_stats
    /\ driver_i' = 1
    /\ UNCHANGED << crawler, site, files, run_log, runs, seed_loaded,
                    previous_data, current_data, is_first_run, seen_urls,
                    error_count >>
    /\ UNCHANGED << call, returned >>

\* a save step that keeps the previous categories and subcategories before
\* those of the run
SavedFilesKeepPrevious(who, fs, prev, cur) ==
    IF who = "incr"
    THEN [t \in DataTypes |->
            [exists |-> TRUE,
             data |-> IF t \in {"main_categories", "sub_categories"}
                      THEN prev[t] \o cur[t]
                      ELSE MergedData(prev, cur)[t]]]
    ELSE [t \in DataTypes |-> _save_json(fs[t], cur[t], FileName(t))]

\* the files after the save step of either crawler
SavedFiles(who, fs, prev, cur) ==
    IF who = "incr"
    THEN [t \in DataTypes |-> [exists |-> TRUE, data |-> MergedData(prev, cur)[t]]]
    ELSE [t \in DataTypes |-> _save_json(fs[t], cur[t], FileName(t))]

\* _save_incremental_data with _save_incremental_log, or the four _save_json
\* calls of the full crawler; then run() ends
SaveData ==
    /\ pc = "save"
    /\ files' = SavedFiles(crawler, files, previous_data, current_data)
    /\ run_log' = IF crawler = "incr"
                  THEN [exists |-> TRUE, first_run |-> is_first_run,
                        stats |-> incremental_stats]
                  ELSE run_log
    /\ tasks' = << >>
    /\ driver_i' = 1
    /\ pc' = "done"
    /\ UNCHANGED << crawler, site, runs, seed_loaded, previous_data,
                    current_data, incremental_stats, is_first_run, seen_urls,
                    error_count >>
    /\ UNCHANGED << call, returned >>

Next ==
    \/ UpstreamChange
    \/ StartRun
    \/ LoadSeedPage
    \/ ExtractMainCategories
    \/ ExtractSubCategories
    \/ SaveCategoryHtml
    \/ SaveCategoryHtmlRaises
    \/ SaveCategoryHtmlHangs
    \/ SubmitListings
    \/ \E i \in DOMAIN tasks : TaskLoadPage(i)
    \/ \E i \in DOMAIN tasks : TaskCheckCard(i)
    \/ \E i \in DOMAIN tasks : TaskAddCourse(i)
    \/ DriverResult
    \/ DriverTimeout
    \/ PoolExit
    \/ CheckExistingHangs
    \/ FinishListings
    \/ SubmitDetails
    \/ SaveData

Spec == Init /\ [][Next]_vars

-----------------------------------------------------------------------------
(* The pure functions taken on their own: a call is drawn, then it returns   *)

\* the crawler as it is constructed, before a site, over an output directory
\* and with the futures given
IdleOver(who, s, ts, fs) ==
    /\ crawler = who
    /\ site = s
    /\ files = fs
    /\ run_log = NoLog
    /\ runs = 0
    /\ pc = "idle"
    /\ seed_loaded = "pending"
    /\ previous_data = EmptyData
    /\ current_data = EmptyData
    /\ incremental_stats = ZeroStats
    /\ is_first_run = FALSE
    /\ seen_urls = {}
    /\ tasks = ts
    /\ driver_i = 1
    /\ error_count = 0

\* the crawler is left as it is constructed while a pure function is called
IdleWith(who, ts) ==
    IdleOver(who, [navOk |-> FALSE, dupSub |-> FALSE, sub2 |-> FALSE,
                   titleA |-> "t1", endless |-> FALSE], ts, NoFiles)

IdleCrawler(who) == IdleWith(who, << >>)

FunctionIdle == IdleCrawler("incr")

\* the course dicts handed to _generate_content_hash: three of the fields of
\* course_data, in every insertion order
HashKeys == {"course_link", "course_title", "collected_at"}
HashDicts ==
    { [i \in 1..Cardinality(HashKeys) |-> << q[i], r[q[i]] >>] :
        q \in { o \in [1..Cardinality(HashKeys) -> HashKeys] :
                  \A i, j \in DOMAIN o : o[i] = o[j] => i = j },
        r \in { [course_link |-> Abs("A"), course_title |-> t, collected_at |-> n] :
                  t \in Titles, n \in 1..MaxRuns } }

\* current_hash and previous_hash of _compare_data_changes: two dicts are hashed
HashCalls == { [op |-> "hash", first |-> d, second |-> e] : d, e \in HashDicts }

InitHash ==
    /\ FunctionIdle
    /\ call \in HashCalls
    /\ returned = NoCall

ApplyHash ==
    /\ call.op = "hash"
    /\ returned = NoCall
    /\ returned' = [op     |-> "hash",
                    first  |-> ContentHashOfDict(call.first),
                    second |-> ContentHashOfDict(call.second)]
    /\ UNCHANGED << crawler_vars, call >>

SpecHash == InitHash /\ [][ApplyHash]_vars

\* the items of each data type, as the crawler builds them; a category and a
\* subcategory link are also met under another name, another parent and
\* another collection time, as a later run can find them
CompareItems(data_type) ==
    LET sub(p) == [main_category |-> "AI TECH", sub_category |-> "Sub1",
                   sub_category_link |-> Abs(p), collected_at |-> 1]
    IN  CASE data_type = "main_categories" ->
               { [main_category |-> "AI TECH", main_category_link |-> Abs(p),
                  collected_at |-> 1] : p \in {"m1", "m2"} }
               \cup { [main_category |-> "DESIGN", main_category_link |-> Abs("m1"),
                       collected_at |-> 2] }
          [] data_type = "sub_categories" ->
               { sub(p) : p \in {"c1", "c2"} }
               \cup { [main_category |-> "DESIGN", sub_category |-> "Sub2",
                       sub_category_link |-> Abs("c1"), collected_at |-> 2] }
          [] data_type = "courses" ->
               { CourseData(sub("c1"), [title |-> t], Abs(p), 1) :
                    t \in Titles, p \in {"A", "B", "C"} }
          [] data_type = "course_details" ->
               { DetailData(s, Abs(p), 1) : s \in Sites, p \in {"A", "B"} }

\* the lists handed to _compare_data_changes hold at most MaxItems items
MaxItems == 2
CompareLists(data_type) ==
    UNION { [1..n -> CompareItems(data_type)] : n \in 0..MaxItems }

InitCompare ==
    /\ FunctionIdle
    /\ \E t \in DataTypes :
         \E c \in CompareLists(t), p \in CompareLists(t) :
            call = [op |-> "compare", data_type |-> t, current |-> c, previous |-> p]
    /\ returned = NoCall

ApplyCompare ==
    /\ call.op = "compare"
    /\ returned = NoCall
    /\ returned' = [op      |-> "compare",
                    changes |-> _compare_data_changes(call.data_type, call.current,
                                                      call.previous)]
    /\ incremental_stats' =
         [incremental_stats EXCEPT ![call.data_type] =
            StatsOf(call.data_type, call.current, call.previous)]
    /\ UNCHANGED << crawler, site, files, run_log, runs, pc, seed_loaded,
                    previous_data, current_data, is_first_run, seen_urls,
                    tasks, driver_i, error_count, call >>

SpecCompare == InitCompare /\ [][ApplyCompare]_vars

\* the detail records _extract_course_detail can return: 강의명, 강의링크,
\* 수집일시 and 추출된_텍스트
DetailTexts == {"body", "body2"}
DetailRecords ==
    [course_name : Titles, course_link : {Abs("A"), Abs("B")},
     collected_at : 1..MaxRuns, extracted_text : DetailTexts]

\* current_hash and previous_hash of two detail records
InitDetailHash ==
    /\ FunctionIdle
    /\ \E d, e \in DetailRecords :
          call = [op |-> "detail_hash", first |-> d, second |-> e]
    /\ returned = NoCall

ApplyDetailHash ==
    /\ call.op = "detail_hash"
    /\ returned = NoCall
    /\ returned' = [op     |-> "detail_hash",
                    first  |-> _generate_content_hash(call.first),
                    second |-> _generate_content_hash(call.second)]
    /\ UNCHANGED << crawler_vars, call >>

SpecDetailHash == InitDetailHash /\ [][ApplyDetailHash]_vars

\* the links the category menu can show: at most MaxLinks main links and
\* MaxLinks subcategory links; "EVENT" is a main link whose text is not one
\* of MAIN_CATEGORIES
MaxLinks == 2
MenuMainLinks ==
    UNION { [1..n -> { [name |-> "AI TECH", href |-> Rel("m1")],
                       [name |-> "EVENT",   href |-> Rel("m9")] }] : n \in 0..MaxLinks }
MenuSubLinks ==
    UNION { [1..n -> [name : {"Sub1"}, href : {Rel("c1"), Abs("c1"), Rel("c2")},
                      parent : {"AI TECH", "EVENT", None}]] : n \in 0..MaxLinks }

\* the menu is read by _extract_main_categories and _extract_sub_categories
InitExtract ==
    /\ FunctionIdle
    /\ \E ml \in MenuMainLinks, sl \in MenuSubLinks :
          \* the container of a subcategory link is the one of a main link shown
          /\ \A i \in DOMAIN sl :
                sl[i].parent # None => \E j \in DOMAIN ml : ml[j].name = sl[i].parent
          /\ call = [op |-> "extract", main_links |-> ml, sub_links |-> sl]
    /\ returned = NoCall

ApplyExtract ==
    /\ call.op = "extract"
    /\ returned = NoCall
    /\ LET found == MainCategoryLoop(call.main_links, 1, {}, << >>, 1)
           r     == SubCategoryLoop(call.sub_links, 1, seen_urls, << >>, 1)
       IN  /\ current_data' = [current_data EXCEPT
                                  !["main_categories"] = @ \o found,
                                  !["sub_categories"]  = @ \o r.data]
           /\ seen_urls' = r.seen
    /\ returned' = [op |-> "extract"]
    /\ UNCHANGED << crawler, site, files, run_log, runs, pc, seed_loaded,
                    previous_data, incremental_stats, is_first_run, tasks,
                    driver_i, error_count, call >>

SpecExtract == InitExtract /\ [][ApplyExtract]_vars

\* the hrefs a course card can carry: root-relative, absolute, an anchor
\* ("#top"), "javascript:void(0)", "mailto:x", or none
CardHrefs ==
    { Rel("A"), Abs("A"), Rel("E"),
      [form |-> "anchor", path |-> "top"],
      [form |-> "javascript", path |-> "void(0)"],
      [form |-> "mailto", path |-> "x"],
      EmptyUrl }

\* a subcategory page shows at most MaxCards cards
MaxCards == 2
PageCards ==
    UNION { [1..n -> [href : CardHrefs, title : {"t1"}]] : n \in 0..MaxCards }

\* one listing task on its own reads the cards of a page
InitCards ==
    /\ FunctionIdle
    /\ \E cards \in PageCards : call = [op |-> "cards", cards |-> cards]
    /\ returned = NoCall

ApplyCards ==
    /\ call.op = "cards"
    /\ returned = NoCall
    /\ LET subcategory == [main_category |-> "AI TECH", sub_category |-> "Sub1",
                           sub_category_link |-> Abs("c1"), collected_at |-> 1]
           r == CardLoop(call.cards, 1, seen_urls, << >>, subcategory, 1)
       IN  /\ seen_urls' = r.seen
           /\ returned' = [op |-> "cards", collected |-> r.collected]
    /\ UNCHANGED << crawler, site, files, run_log, runs, pc, seed_loaded,
                    previous_data, current_data, incremental_stats,
                    is_first_run, tasks, driver_i, error_count, call >>

SpecCards == InitCards /\ [][ApplyCards]_vars

\* _safe_page_load of either crawler on its own: every outcome of the
\* attempts and of the backoff waits, for each of the pages loaded
LoadedUrls == { Abs(p) : p \in {"", "c1", "A"} }

InitLoad ==
    /\ FunctionIdle
    /\ \E url \in LoadedUrls, outcomes \in [0..(RETRIES - 1) -> BOOLEAN],
          wait_ok \in [0..(RETRIES - 2) -> BOOLEAN] :
          call = [op |-> "load", url |-> url, outcomes |-> outcomes,
                  wait_ok |-> wait_ok]
    /\ returned = NoCall

ApplyLoad ==
    /\ call.op = "load"
    /\ returned = NoCall
    /\ returned' = [op |-> "load",
                    r  |-> SafeLoadLoop(call.outcomes, call.wait_ok, 0, 0)]
    /\ UNCHANGED << crawler_vars, call >>

SpecLoad == InitLoad /\ [][ApplyLoad]_vars

\* the images of a card: at most MaxImages, of sizes around MIN_IMAGE_SIZE
MaxImages == 2
ImageSizes == {0, MIN_IMAGE_SIZE - 1, MIN_IMAGE_SIZE, MIN_IMAGE_SIZE + 1}
CardImages ==
    UNION { [1..n -> [url : {"u1", "u2"}, fetched : BOOLEAN, size : ImageSizes]] :
              n \in 0..MaxImages }

\* a listing task of the full crawler handles the card of course A
InitThumbs ==
    /\ IdleCrawler("full")
    /\ \E images \in CardImages, mkdir_ok \in BOOLEAN :
          call = [op |-> "thumbs", images |-> images, mkdir_ok |-> mkdir_ok]
    /\ returned = NoCall

\* the card is handled, the task returns and the driver extends data['courses']
ApplyThumbs ==
    /\ call.op = "thumbs"
    /\ returned = NoCall
    /\ LET subcategory == [main_category |-> "AI TECH", sub_category |-> "Sub1",
                           sub_category_link |-> Abs("c1"), collected_at |-> 1]
           r == ThumbnailCard(subcategory, [href |-> Rel("A"), title |-> "t1"],
                              Abs("A"), call.images, call.mkdir_ok, 1)
       IN  /\ current_data' = [current_data EXCEPT
                                  !["courses"] = Collected(@, r.collected)]
           /\ seen_urls' = seen_urls \cup {Abs("A")}
           /\ error_count' = error_count + r.errors
           /\ returned' = [op |-> "thumbs", saved |-> r.saved, counted |-> r.counted]
    /\ UNCHANGED << crawler, site, files, run_log, runs, pc, seed_loaded,
                    previous_data, incremental_stats, is_first_run, tasks,
                    driver_i, call >>

\* the save step of run() writes the collected data
SaveThumbs ==
    /\ returned.op = "thumbs"
    /\ files' = SavedFiles(crawler, files, previous_data, current_data)
    /\ returned' = [returned EXCEPT !.op = "thumbs_saved"]
    /\ UNCHANGED << crawler, site, run_log, runs, pc, seed_loaded,
                    previous_data, current_data, incremental_stats,
                    is_first_run, seen_urls, tasks, driver_i, error_count, call >>

NextThumbs == ApplyThumbs \/ SaveThumbs

SpecThumbs == InitThumbs /\ [][NextThumbs]_vars

\* the cards of a page with their thumbnail directories: at most MaxCards
\* cards; "E" is an event page
LimitCards ==
    UNION { [1..n -> [href : {Rel("A"), Rel("B"), Rel("E"), EmptyUrl},
                      title : {"t1"}, mkdir_ok : BOOLEAN]] : n \in 0..MaxCards }

\* the limits handed over as max_courses
MaxLimit == 2

\* one listing extraction with a limit, of either crawler
InitLimit ==
    /\ \E who \in {"incr", "full"} : IdleCrawler(who)
    /\ \E cards \in LimitCards, max_courses \in 1..MaxLimit :
          call = [op |-> "limit", cards |-> cards, max_courses |-> max_courses]
    /\ returned = NoCall

ApplyLimit ==
    /\ call.op = "limit"
    /\ returned = NoCall
    /\ LET subcategory == [main_category |-> "AI TECH", sub_category |-> "Sub1",
                           sub_category_link |-> Abs("c1"), collected_at |-> 1]
           r == IF crawler = "incr"
                THEN SlicedCardLoop(call.cards, seen_urls, call.max_courses,
                                    subcategory, 1)
                ELSE LimitedCardLoop(call.cards, 1, seen_urls, << >>, 0,
                                     call.max_courses, subcategory, 1)
       IN  /\ seen_urls' = r.seen
           /\ returned' = [op |-> "limit", collected |-> r.collected,
                           counted |-> r.counted]
    /\ UNCHANGED << crawler, site, files, run_log, runs, pc, seed_loaded,
                    previous_data, current_data, incremental_stats,
                    is_first_run, tasks, driver_i, error_count, call >>

SpecLimit == InitLimit /\ [][ApplyLimit]_vars

\* the data a run of the full crawler can hold when it comes to its save
\* step: the first n of the nine main categories, n subcategories, and the
\* courses and details of course A and of course B, whose title was not found
MainCategoryNames ==
    << "AI TECH", "AI CREATIVE", "AI/PRODUCTIVITY", "DEV/DATA", "DESIGN",
       "VIDEO/3D", "FINANCE", "DRAWING", "BUSINESS" >>
MainCategoryList(n) ==
    [i \in 1..n |-> [main_category      |-> MainCategoryNames[i],
                     main_category_link |-> Abs("m" \o ToString(i)),
                     collected_at       |-> 1]]
SubCategoryList(n) ==
    [i \in 1..n |-> [main_category     |-> "AI TECH",
                     sub_category      |-> "Sub" \o ToString(i),
                     sub_category_link |-> Abs("c" \o ToString(i)),
                     collected_at      |-> 1]]
SavedCourses ==
    LET sub == SubCategoryList(1)[1]
        a   == CourseData(sub, [title |-> "t1"], Abs("A"), 1)
        b   == CourseData(sub, [title |-> NoTitle], Abs("B"), 1)
    IN  { << >>, << a >>, << b >>, << a, b >> }
SavedDetails ==
    LET a == [course_name |-> "t1", course_link |-> Abs("A"), collected_at |-> 1,
              extracted_text |-> "body"]
        b == [course_name |-> NoTitle, course_link |-> Abs("B"), collected_at |-> 1,
              extracted_text |-> "body"]
    IN  { << >>, << a >>, << b >>, << a, b >> }

InitSave ==
    /\ IdleCrawler("full")
    /\ \E m \in {0, VALID_MAIN_COUNT - 1, VALID_MAIN_COUNT},
          s \in {0, VALID_SUB_MIN - 1, VALID_SUB_MIN, VALID_SUB_MIN + 1},
          c \in SavedCourses, d \in SavedDetails :
          \* courses come from subcategories, details from courses
          /\ c # << >> => s > 0
          /\ UrlsOf("course_details", d) \subseteq UrlsOf("courses", c)
          /\ call = [op |-> "save",
                     data |-> [main_categories |-> MainCategoryList(m),
                               sub_categories  |-> SubCategoryList(s),
                               courses         |-> c,
                               course_details  |-> d]]
    /\ returned = NoCall

\* the four _save_json calls of run()
ApplySave ==
    /\ call.op = "save"
    /\ returned = NoCall
    /\ current_data' = call.data
    /\ files' = SavedFiles(crawler, files, previous_data, call.data)
    /\ returned' = [op |-> "save"]
    /\ UNCHANGED << crawler, site, run_log, runs, pc, seed_loaded,
                    previous_data, incremental_stats, is_first_run, seen_urls,
                    tasks, driver_i, error_count, call >>

SpecSave == InitSave /\ [][ApplySave]_vars

\* the incremental crawler started over an output directory as it can be
\* found: each snapshot file is missing, holds text that does not parse, or
\* holds what an earlier run saved of the site
PlainSite ==
    [navOk |-> TRUE, dupSub |-> FALSE, sub2 |-> FALSE, titleA |-> "t1",
     endless |-> FALSE]
EarlierData ==
    LET subs == SubCategoryLoop(SubLinks(PlainSite), 1, {}, << >>, 0).data
    IN  [main_categories |-> MainCategoryLoop(MainLinks(PlainSite), 1, {}, << >>, 0),
         sub_categories  |-> subs,
         courses         |-> CardLoop(Cards(PlainSite, Abs("c1")), 1, {}, << >>,
                                      subs[1], 0).collected,
         course_details  |-> << DetailData(PlainSite, Abs("A"), 0) >>]
DiskFiles(t) ==
    { [exists |-> FALSE, data |-> << >>],
      [exists |-> TRUE, parses |-> FALSE, data |-> << >>],
      [exists |-> TRUE, data |-> EarlierData[t]] }

InitPrevious ==
    /\ \E fs \in [DataTypes -> UNION { DiskFiles(t) : t \in DataTypes }] :
          /\ \A t \in DataTypes : fs[t] \in DiskFiles(t)
          /\ IdleOver("incr", PlainSite, << >>, fs)
    /\ call = NoCall
    /\ returned = NoCall

\* the runs of the incremental crawler over that directory
NextPrevious ==
    \/ StartRun
    \/ LoadSeedPage
    \/ ExtractMainCategories
    \/ ExtractSubCategories
    \/ SubmitListings
    \/ \E i \in DOMAIN tasks : TaskLoadPage(i)
    \/ \E i \in DOMAIN tasks : TaskCheckCard(i)
    \/ \E i \in DOMAIN tasks : TaskAddCourse(i)
    \/ DriverResult
    \/ DriverTimeout
    \/ PoolExit
    \/ FinishListings
    \/ SubmitDetails
    \/ SaveData

SpecPrevious == InitPrevious /\ [][NextPrevious]_vars

\* The URL of an image as _normalize_url takes it: the text
\* scheme ":" "//" host "/" path, where a part that is "" (rooted: FALSE for
\* the "/") is not written; "hhttps" is the misspelt scheme, "data" the
\* scheme of an inline image, whose path is its payload
ImageHosts == {"fastcampus.co.kr", "cdn.fastcampus.co.kr", "static.example.com"}
ImagePaths == {"a.png", "b.webp", "dir/c.jpg", "r?u=hhttps://x"}
RawUrls ==
    { u \in [scheme : {"", "http", "https", "hhttps", "data"},
             host : ImageHosts \cup {""}, rooted : BOOLEAN, path : ImagePaths] :
        /\ u.scheme \in {"http", "https", "hhttps"} => (u.host # "" /\ u.rooted)
        /\ u.scheme = "data" => (u.host = "" /\ ~u.rooted)
        /\ u.host # "" => u.rooted }

\* self.base_url
BaseUrl == [scheme |-> "https", host |-> "fastcampus.co.kr", rooted |-> TRUE,
            path |-> ""]

\* url.startswith('//'), url.startswith('/') and url.startswith('http')
StartsWithSlashes(url) == url.scheme = "" /\ url.host # ""
StartsWithSlash(url) == url.scheme = "" /\ url.rooted
StartsWithHttp(url) == url.scheme \in {"http", "https"}

\* urllib.parse.urljoin(base, url): a URL of another scheme than the base is
\* returned as it is; otherwise the parts the URL lacks are those of the base
\* (the base has no path of its own)
urljoin(base, url) ==
    IF url.scheme # "" /\ url.scheme # base.scheme THEN url
    ELSE IF url.host # "" THEN [url EXCEPT !.scheme = base.scheme]
    ELSE [scheme |-> base.scheme, host |-> base.host, rooted |-> TRUE,
          path |-> url.path]

\* url.replace('hhttps://', 'https://'): every occurrence in the text
ReplaceTypo(url) ==
    [url EXCEPT !.scheme = IF @ = "hhttps" THEN "https" ELSE @,
                !.path   = IF @ = "r?u=hhttps://x" THEN "r?u=https://x" ELSE @]

\* _normalize_url(url)
_normalize_url(url) ==
    IF StartsWithSlashes(url) THEN [url EXCEPT !.scheme = "https"]
    ELSE IF StartsWithSlash(url) THEN urljoin(BaseUrl, url)
    ELSE IF ~StartsWithHttp(url) THEN urljoin(BaseUrl, url)
    ELSE ReplaceTypo(url)

InitNormalize ==
    /\ IdleCrawler("full")
    /\ \E url \in RawUrls : call = [op |-> "normalize", url |-> url]
    /\ returned = NoCall

ApplyNormalize ==
    /\ call.op = "normalize"
    /\ returned = NoCall
    /\ returned' = [op |-> "normalize", url |-> _normalize_url(call.url)]
    /\ UNCHANGED << crawler_vars, call >>

SpecNormalize == InitNormalize /\ [][ApplyNormalize]_vars

-----------------------------------------------------------------------------
(* The browsers of the functions that open one                               *)

\* The functions that open a browser, each followed through its own steps:
\* the tasks a pool runs side by side (_extract_courses_from_subcategory,
\* _extract_course_detail), or the one call of _check_existing_courses.  A
\* worker is
\*   arg    : the function it runs
\*   status : "start", "load" (browser and page set up, in _safe_page_load),
\*            "body" (page loaded, scrolling and reading it), "scroll" (in a
\*            _scroll_page that never ends), "closing" (leaving the function,
\*            by return or by exception), "exited"
\*   browser: the browser its `browser, page = self._setup_browser(p)` made
\*            (0: none yet); browsers are numbered as they are launched
\*   open   : that browser is still up
\*   used   : the browsers whose page the worker called a method of
\*   exit   : how the function was left: "success", "load_failed", "exception"
NewWorker(kind) ==
    [arg |-> kind, status |-> "start", browser |-> 0, open |-> FALSE,
     used |-> {}, exit |-> "none"]

WorkerSets ==
    { << NewWorker("listing"), NewWorker("listing") >>,
      << NewWorker("detail"), NewWorker("detail") >>,
      << NewWorker("check") >> }

\* the browsers launched so far
Launched == { tasks[i].browser : i \in DOMAIN tasks } \ {0}

\* one attribute of the crawler holding the page of the browser launched last
SharedPage(i) == CHOOSE b \in Launched : \A c \in Launched : c <= b

\* the page the steps of worker i work on: `page` is a local variable of the
\* function, bound by its own _setup_browser call
WorkerPage(i) == tasks[i].browser

InitWorkers ==
    /\ \E who \in {"incr", "full"}, ws \in WorkerSets :
          /\ ws[1].arg = "check" => who = "incr"
          /\ IdleWith(who, ws)
    /\ call = NoCall
    /\ returned = NoCall

\* with sync_playwright() as p: browser, page = self._setup_browser(p)
WorkerSetup(i) ==
    /\ tasks[i].status = "start"
    /\ tasks' = [tasks EXCEPT ![i] =
                   [@ EXCEPT !.status = "load",
                             !.browser = Cardinality(Launched) + 1,
                             !.open = TRUE]]

\* _safe_page_load(page, ...): returns True, returns False (the task returns
\* [] or None; _check_existing_courses goes on to browser.close()), or raises
WorkerLoad(i) ==
    /\ tasks[i].status = "load"
    /\ \E outcomes \in LoadOutcomes, wait_ok \in [0..(RETRIES - 2) -> BOOLEAN] :
         LET r == SafeLoadLoop(outcomes, wait_ok, 0, 0)
         IN  tasks' = [tasks EXCEPT ![i] =
                         [@ EXCEPT !.used = @ \cup {WorkerPage(i)},
                                   !.status = IF r.ok THEN "body" ELSE "closing",
                                   !.exit = IF r.ok THEN "none"
                                            ELSE IF r.raised THEN "exception"
                                            ELSE "load_failed"]]

\* _scroll_page(page) and the reading of the page: done, or an exception of
\* one of the page's methods, or a page that keeps growing
WorkerBody(i) ==
    /\ tasks[i].status = "body"
    /\ \E outcome \in {"success", "exception", "endless"} :
         tasks' = [tasks EXCEPT ![i] =
                     [@ EXCEPT !.used = @ \cup {WorkerPage(i)},
                               !.status = IF outcome = "endless" THEN "scroll"
                                          ELSE "closing",
                               !.exit = IF outcome = "endless" THEN "none"
                                        ELSE outcome]]

\* the function is left: `finally: browser.close()` of the tasks;
\* _check_existing_courses calls browser.close() at the end of its block, and
\* when an exception skips that call, leaving `with sync_playwright()` stops
\* the driver and the browser with it
WorkerExit(i) ==
    /\ tasks[i].status = "closing"
    /\ tasks' = [j \in DOMAIN tasks |->
                   IF j = i
                   THEN [tasks[j] EXCEPT !.status = "exited",
                                         !.open = IF WorkerPage(i) = tasks[j].browser
                                                  THEN FALSE ELSE @]
                   ELSE IF tasks[j].browser = WorkerPage(i)
                   THEN [tasks[j] EXCEPT !.open = FALSE]
                   ELSE tasks[j]]

WorkerStep(i) == WorkerSetup(i) \/ WorkerLoad(i) \/ WorkerBody(i) \/ WorkerExit(i)

NextWorkers ==
    /\ \E i \in DOMAIN tasks : WorkerStep(i)
    /\ UNCHANGED << crawler, site, files, run_log, runs, pc, seed_loaded,
                    previous_data, current_data, incremental_stats,
                    is_first_run, seen_urls, driver_i, error_count,
                    call, returned >>

SpecWorkers == InitWorkers /\ [][NextWorkers]_vars

-----------------------------------------------------------------------------
(* Vocabulary of the properties                                              *)

\* no two items of the list share their URL
NoDuplicateUrls(data_type, data) ==
    \A i, j \in DOMAIN data :
        ItemUrl(data_type, data[i]) = ItemUrl(data_type, data[j]) => i = j

\* the canonical keys the site serves for each data type
SiteMainUrls(s) ==
    { JoinBase(MainLinks(s)[i].href) :
        i \in { j \in DOMAIN MainLinks(s) : MainLinks(s)[j].name \in MAIN_CATEGORIES } }
SiteSubUrls(s) ==
    { JoinBase(SubLinks(s)[i].href) :
        i \in { j \in DOMAIN SubLinks(s) : SubLinks(s)[j].parent # None } }
SiteCourseUrls(s) ==
    UNION { { JoinBase(Cards(s, u)[i].href) : i \in DOMAIN Cards(s, u) } : u \in SiteSubUrls(s) }
SiteUrls(s, data_type) ==
    CASE data_type = "main_categories" -> SiteMainUrls(s)
      [] data_type = "sub_categories"  -> SiteSubUrls(s)
      [] OTHER                         -> SiteCourseUrls(s)

\* the changes of a data type between the run's data and the loaded snapshot
Changes(data_type) ==
    _compare_data_changes(data_type, current_data[data_type], previous_data[data_type])

\* a run of the incremental crawler has come to its end through the save step
IncrementalRunSaved == crawler = "incr" /\ pc = "done"

\* the loaded snapshot holds, for every data type, exactly the keys the site serves
SnapshotCoversSite ==
    \A t \in DataTypes : UrlsOf(t, previous_data[t]) = SiteUrls(site, t)

\* the title the loaded snapshot holds for a course
PreviousTitles(url) ==
    { previous_data["courses"][i].course_title :
        i \in { j \in DOMAIN previous_data["courses"] :
                  previous_data["courses"][j].course_link = url } }

-----------------------------------------------------------------------------
(* C1: in the Listings stage, of the tasks that meet the same course URL     *)
(* exactly one registers it: no URL is collected by two tasks, and none      *)
(* appears twice in the courses the stage collects.                          *)
C1_OneRegistrationPerUrl ==
    /\ pc = "listings_pool" =>
         \A i, j \in DOMAIN tasks :
            i # j => UrlsOf("courses", tasks[i].collected)
                       \cap UrlsOf("courses", tasks[j].collected) = {}
    /\ NoDuplicateUrls("courses", current_data["courses"])

(* C2: in every persisted snapshot no two entities of one type share their   *)
(* canonical URL.                                                            *)
C2_NoDuplicateKeysPersisted ==
    \A t \in DataTypes : files[t].exists => NoDuplicateUrls(t, files[t].data)

(* C3: when the title of course A is the one thing that changed since the    *)
(* snapshot was taken, the finished incremental run reports A as updated and *)
(* persists A with the title of the current run.                             *)
C3_TitleChangeUpdatesListing ==
    ( /\ IncrementalRunSaved
      /\ SnapshotCoversSite
      /\ PreviousTitles(Abs("A")) # {}
      /\ site.titleA \notin PreviousTitles(Abs("A")) )
    => /\ Abs("A") \in Changes("courses").updated
       /\ \A i \in DOMAIN files["courses"].data :
             files["courses"].data[i].course_link = Abs("A")
                => files["courses"].data[i].course_title = site.titleA

(* C4: a run of the incremental crawler against a site that serves exactly   *)
(* what the loaded snapshot holds, titles included, classifies every key of  *)
(* every type as unchanged: nothing is new, updated or removed.              *)
C4_UnchangedSiteNoChanges ==
    ( /\ IncrementalRunSaved
      /\ ~is_first_run
      /\ SnapshotCoversSite
      /\ PreviousTitles(Abs("A")) \subseteq {site.titleA} )
    => \A t \in DataTypes :
          /\ incremental_stats[t].new = 0
          /\ incremental_stats[t].updated = 0
          /\ incremental_stats[t].removed = 0
          /\ incremental_stats[t].unchanged = Cardinality(SiteUrls(site, t))

(* C5: the merge is idempotent: merging the run's data into the merged      *)
(* snapshot again gives the merged snapshot back.                            *)
C5_MergeIdempotent ==
    LET merged == MergedData(previous_data, current_data)
    IN  MergedData(merged, current_data) = merged

\* a saved run whose courses are partly in the loaded snapshot and partly new
C5_MergeOverlapSaved ==
    /\ IncrementalRunSaved
    /\ previous_data["courses"] # << >>
    /\ UrlsOf("courses", current_data["courses"])
          \cap UrlsOf("courses", previous_data["courses"]) # {}
    /\ UrlsOf("courses", current_data["courses"])
          \ UrlsOf("courses", previous_data["courses"]) # {}
    /\ \A t \in DataTypes : files[t].data = MergedData(previous_data, current_data)[t]

(* C6: no course and no detail whose key is classified removed is in the     *)
(* snapshot the incremental run persists.                                    *)
C6_RemovedAbsentFromSnapshot ==
    IncrementalRunSaved =>
        \A t \in {"courses", "course_details"} :
            Changes(t).removed \cap UrlsOf(t, files[t].data) = {}

(* C6, as amended: no detail whose key is classified removed is in the       *)
(* persisted snapshot, and every course whose key is classified removed is   *)
(* still in it.                                                              *)
C6_RemovedDetailsDroppedCoursesKept ==
    IncrementalRunSaved =>
        /\ Changes("course_details").removed
              \cap UrlsOf("course_details", files["course_details"].data) = {}
        /\ Changes("courses").removed
              \subseteq UrlsOf("courses", files["courses"].data)

\* a saved run with a removed course and a removed detail
C6_RemovedCourseAndDetailSaved ==
    /\ IncrementalRunSaved
    /\ Changes("courses").removed # {}
    /\ Changes("course_details").removed # {}

(* C7: a finished incremental run that loaded an empty snapshot is a first   *)
(* run, and every item it produced, of every type, is counted as new.        *)
C7_EmptySnapshotAllNew ==
    ( IncrementalRunSaved /\ \A t \in DataTypes : previous_data[t] = << >> )
    => /\ is_first_run
       /\ run_log.first_run
       /\ \A t \in DataTypes :
             incremental_stats[t] =
                [new       |-> Cardinality(UrlsOf(t, current_data[t])),
                 updated   |-> 0,
                 removed   |-> 0,
                 unchanged |-> 0]

(* C8: when the load of the seed page fails for good, the run is aborted     *)
(* with an error logged and before anything is collected; from there on no   *)
(* snapshot file and no run log is written until another run is started.     *)
C8_SeedFailureAborts ==
    [][ /\ (seed_loaded = "pending" /\ seed_loaded' = "failed") =>
              /\ pc' = "aborted"
              /\ error_count' > error_count
              /\ current_data' = EmptyData
              /\ incremental_stats' = ZeroStats
              /\ seen_urls' = {}
              /\ tasks' = << >>
        /\ (seed_loaded = "failed" \/ seed_loaded' = "failed") =>
              /\ files' = files
              /\ run_log' = run_log
        /\ pc = "aborted" => pc' \in {"aborted", "seed"} ]_vars

\* a run aborted on its seed page while an earlier run's snapshot is on disk
C8_AbortedOverSnapshot ==
    /\ seed_loaded = "failed"
    /\ pc = "aborted"
    /\ runs = 2
    /\ files["courses"].exists
    /\ files["courses"].data # << >>

(* C9: a task whose page load fails on all attempts returns with nothing    *)
(* collected and is recorded as exactly one failure; its result adds nothing *)
(* to the output of the stage, and once every future is through the driver   *)
(* goes on to the next stage.                                                *)
C9_FailedTaskRecordedOnce ==
    [][ InPool =>
          /\ pc' = pc =>
                \A i \in DOMAIN tasks :
                    (~tasks[i].load_failed /\ tasks'[i].load_failed) =>
                        /\ tasks'[i].status = "done"
                        /\ tasks'[i].collected = << >>
                        /\ error_count' = error_count + 1
          /\ ( /\ pc' = pc
               /\ driver_i <= Len(tasks)
               /\ driver_i' = driver_i + 1
               /\ tasks[driver_i].load_failed ) => current_data' = current_data
          /\ (driver_i > Len(tasks) /\ AllTasksDone) => pc' = AfterPool(pc, crawler)
      ]_vars

(* C10: the first run ends with every snapshot file written (and, for the    *)
(* incremental crawler, the run log with the statistics) or with none.       *)
C10_CompleteSnapshotOrNone ==
    ( pc \in {"done", "aborted"} /\ runs = 1 )
    => \/ /\ \A t \in DataTypes : files[t].exists
          /\ crawler = "incr" => run_log.exists
       \/ /\ \A t \in DataTypes : ~files[t].exists
          /\ ~run_log.exists

(* C11: once the seed page has loaded, the run is not aborted: no failure    *)
(* inside a stage keeps the pipeline from its remaining stages and the save. *)
C11_NoAbortAfterSeed == seed_loaded = "ok" => pc # "aborted"

(* C12: the Listings pool is left only when every one of its futures has     *)
(* finished, those the driver timed out on included, and the driver has been *)
(* through all of them; no task of the Details stage exists before that, and *)
(* the courses the Details stage reads do not change once the pool is left.  *)
C12_StageBarrier ==
    [][ /\ (pc = "listings_pool" /\ pc' # "listings_pool") =>
              /\ \A i \in DOMAIN tasks : tasks[i].status = "done"
              /\ driver_i > Len(tasks)
        /\ pc' = "details_pool" =>
              \/ pc = "details_pool"
              \/ pc = "details" /\ \A i \in DOMAIN tasks' : tasks'[i].status = "load"
        /\ pc \in {"listings_finish", "details", "details_pool", "save"} =>
              /\ current_data'["courses"] = current_data["courses"]
              /\ seen_urls' = seen_urls ]_vars

\* the Listings pool has been left after the driver timed out on a future
C12_LeftPoolAfterTimeout ==
    /\ pc \in {"listings_finish", "details"}
    /\ \E i \in DOMAIN tasks :
          /\ tasks[i].consumed = "timeout"
          /\ tasks[i].collected # << >>

(* C13: the pool of the Listings and of the Details stage never blocks: as  *)
(* long as the driver is inside the pool, the driver or one of the tasks can *)
(* take a step that gets the stage further.                                  *)
C13_PoolNeverBlocked == InPool => ENABLED Next

\* the place of each position of the driver in the order of run()
StageRank(p) ==
    CASE p = "idle"            -> 0
      [] p = "seed"            -> 1
      [] p = "main"            -> 2
      [] p = "sub"             -> 3
      [] p = "html"            -> 4
      [] p = "listings"        -> 5
      [] p = "listings_pool"   -> 6
      [] p = "listings_finish" -> 7
      [] p = "details"         -> 8
      [] p = "details_pool"    -> 9
      [] p = "save"            -> 10
      [] p = "done"            -> 11
      [] OTHER                 -> 12

\* the driver moves forward in the order of run(), or the run ends aborted or
\* hangs, or a new run starts from a run that has ended
ForwardStep ==
    pc' # pc =>
       \/ Resting /\ pc' = "seed"
       \/ pc \notin {"done", "aborted", "hung"} /\ StageRank(pc') > StageRank(pc)

C15_DetailsHaveListing ==
    files["course_details"].exists =>
        /\ files["courses"].exists
        /\ UrlsOf("course_details", files["course_details"].data)
              \subseteq UrlsOf("courses", files["courses"].data)

(* C16: the statistics a finished incremental run logs hold, for every data  *)
(* type, the sizes of the new, updated, removed and unchanged key sets of    *)
(* the run's data against the loaded snapshot; new + updated + unchanged is  *)
(* the number of distinct keys the run produced.                             *)
C16_StatsAreSetSizes ==
    IncrementalRunSaved =>
        \A t \in DataTypes :
            /\ run_log.stats[t] =
                  [new       |-> Cardinality(Changes(t).new),
                   updated   |-> Cardinality(Changes(t).updated),
                   removed   |-> Cardinality(Changes(t).removed),
                   unchanged |-> Cardinality(Changes(t).unchanged)]
            /\ run_log.stats[t].new + run_log.stats[t].updated
                  + run_log.stats[t].unchanged
                  = Cardinality(UrlsOf(t, current_data[t]))

(* C17: two dicts with the same (key, value) pairs have the same content    *)
(* hash, in whatever order their fields were inserted; it is the hash of the *)
(* record the state machine keeps for them.                                  *)
C17_HashStableUnderReordering ==
    returned.op = "hash" =>
        /\ Range(call.first) = Range(call.second) => returned.first = returned.second
        /\ returned.first = _generate_content_hash(AsRecord(call.first))

\* two dicts that differ in the order of their fields alone have been hashed
C17_ReorderedDictsHashed ==
    /\ returned.op = "hash"
    /\ call.first # call.second
    /\ Range(call.first) = Range(call.second)

(* C18: while the incremental crawler runs its listing stage, the            *)
(* subcategories its listing tasks were submitted for are exactly the current *)
(* subcategories classified new or updated against the loaded snapshot; no    *)
(* listing task exists for an unchanged subcategory.                          *)
C18_ListingTasksForChangedSubcategories ==
    crawler = "incr" /\ pc \in {"listings_pool", "listings_finish"} =>
        LET changes == Changes("sub_categories")
        IN  /\ { tasks[i].arg.sub_category_link : i \in DOMAIN tasks }
                 = changes.new \cup changes.updated
            /\ \A i \in DOMAIN tasks :
                 tasks[i].arg.sub_category_link \notin changes.unchanged

\* the listing pool runs for a new subcategory while another one is unchanged
C18_ListingPoolSkipsUnchanged ==
    /\ crawler = "incr"
    /\ pc = "listings_pool"
    /\ tasks # << >>
    /\ Changes("sub_categories").unchanged # {}

(* C19: while the incremental crawler runs its detail stage, the listings    *)
(* its detail tasks were submitted for are exactly the current listings       *)
(* classified new or updated, each submitted once; no detail task exists for  *)
(* an unchanged or a removed listing.                                         *)
C19_DetailTasksForChangedListingsOnce ==
    crawler = "incr" /\ pc = "details_pool" =>
        LET changes == Changes("courses")
        IN  /\ { tasks[i].arg : i \in DOMAIN tasks } = changes.new \cup changes.updated
            /\ \A i, j \in DOMAIN tasks : tasks[i].arg = tasks[j].arg => i = j

\* the field an entity of a data type is keyed by
KeyField(data_type) ==
    CASE data_type = "main_categories" -> "main_category_link"
      [] data_type = "sub_categories"  -> "sub_category_link"
      [] OTHER                         -> "course_link"

Keys(data_type, data) == { data[i][KeyField(data_type)] : i \in DOMAIN data }

(* C20: for every data type the four sets the change detector returns are    *)
(* new = current keys minus previous keys, removed = previous keys minus     *)
(* current keys, updated and unchanged together the keys in both, and no key *)
(* is in two of the four sets.                                               *)
C20_FourSetsFollowReference ==
    returned.op = "compare" =>
        LET currentKeys  == Keys(call.data_type, call.current)
            previousKeys == Keys(call.data_type, call.previous)
            c == returned.changes
        IN  /\ c.new = currentKeys \ previousKeys
            /\ c.removed = previousKeys \ currentKeys
            /\ c.updated \cup c.unchanged = currentKeys \cap previousKeys
            /\ c.new \cap c.updated = {}
            /\ c.new \cap c.removed = {}
            /\ c.new \cap c.unchanged = {}
            /\ c.updated \cap c.removed = {}
            /\ c.updated \cap c.unchanged = {}
            /\ c.removed \cap c.unchanged = {}

\* a comparison has returned a new, an updated and a removed key at once
C20_NewUpdatedRemovedTogether ==
    /\ returned.op = "compare"
    /\ returned.changes.new # {}
    /\ returned.changes.updated # {}
    /\ returned.changes.removed # {}

\* the titles a list of listings holds for a course
TitlesOf(data, url) ==
    { data[i].course_title : i \in { j \in DOMAIN data : data[j].course_link = url } }

(* C21: in the incremental crawler, a listing whose URL is both in the run's  *)
(* courses and in the loaded snapshot is classified updated exactly when its  *)
(* title differs between the two; with the same title it is unchanged,       *)
(* whatever the times of collection.                                          *)
C21_UpdatedIffTitleDiffers ==
    ( /\ crawler = "incr"
      /\ NoDuplicateUrls("courses", current_data["courses"])
      /\ NoDuplicateUrls("courses", previous_data["courses"]) )
    => \A u \in UrlsOf("courses", current_data["courses"])
                  \cap UrlsOf("courses", previous_data["courses"]) :
          /\ u \in Changes("courses").updated
               <=> TitlesOf(current_data["courses"], u)
                     # TitlesOf(previous_data["courses"], u)
          /\ u \in Changes("courses").unchanged
               <=> TitlesOf(current_data["courses"], u)
                     = TitlesOf(previous_data["courses"], u)

(* C22: two detail records with the same title and the same body text have  *)
(* the same content hash, whatever their link and their time of collection.  *)
C22_DetailHashOfTitleAndText ==
    ( /\ returned.op = "detail_hash"
      /\ call.first.course_name = call.second.course_name
      /\ call.first.extracted_text = call.second.extracted_text )
    => returned.first = returned.second

\* a listing found by the run and held by the loaded snapshot with the same title
ListingUnchanged(url) ==
    /\ url \in UrlsOf("courses", current_data["courses"])
                 \cap UrlsOf("courses", previous_data["courses"])
    /\ TitlesOf(current_data["courses"], url) = TitlesOf(previous_data["courses"], url)

(* C23: the snapshot a finished incremental run persists still holds a       *)
(* detail for every detail of the loaded snapshot whose listing is unchanged *)
(* (found again with the same title).                                        *)
C23_UnchangedListingKeepsDetail ==
    IncrementalRunSaved =>
        \A d \in Range(previous_data["course_details"]) :
            ListingUnchanged(d.course_link)
                => d.course_link \in UrlsOf("course_details", files["course_details"].data)

\* the names of the run's main categories
CategoryNames ==
    { current_data["main_categories"][i].main_category :
        i \in DOMAIN current_data["main_categories"] }

(* C24: after the menu has been read, every subcategory kept has a parent    *)
(* that is one of the main categories kept by the same run.                  *)
C24_SubcategoryParentInCategories ==
    returned.op = "extract" =>
        \A i \in DOMAIN current_data["sub_categories"] :
            current_data["sub_categories"][i].main_category \in CategoryNames

(* C25: every course key a listing task accepts is an absolute URL: a card   *)
(* whose href is an anchor, a javascript: or a mailto: form gives no course, *)
(* and neither the collected courses nor seen_urls hold such a form.         *)
C25_CourseKeysAbsolute ==
    returned.op = "cards" =>
        /\ \A i \in DOMAIN returned.collected :
              returned.collected[i].course_link.form = "abs"
        /\ \A u \in seen_urls : u.form = "abs"

(* C26: after the menu has been read, no two subcategories of the run have  *)
(* the same link, whatever the raw hrefs of the menu links were.             *)
C26_SubcategoriesDistinctByCanonicalUrl ==
    returned.op = "extract" =>
        \A i, j \in DOMAIN current_data["sub_categories"] :
            current_data["sub_categories"][i].sub_category_link
                = current_data["sub_categories"][j].sub_category_link
            => i = j

\* the attempts of the call that succeed
GoodAttempts == { n \in 0..(RETRIES - 1) : call.outcomes[n] }

(* C27: a page load makes at most RETRIES attempts, returns success at the   *)
(* first attempt that succeeds, having waited once before each attempt but   *)
(* the first, returns failure only when every attempt failed, having waited  *)
(* between the attempts only, and never raises.                              *)
C27_LoadRetriesThenReturns ==
    returned.op = "load" =>
        LET r == returned.r
        IN  /\ ~r.raised
            /\ r.attempts <= RETRIES
            /\ r.ok <=> GoodAttempts # {}
            /\ r.ok => /\ r.attempts - 1 \in GoodAttempts
                       /\ \A n \in GoodAttempts : r.attempts - 1 <= n
            /\ ~r.ok => r.attempts = RETRIES
            /\ r.waits = r.attempts - 1

\* the thumbnails of the card have distinct URLs and are no more than the
\* card may keep, and the thumbnail directory could be made
PlainThumbnails ==
    /\ call.mkdir_ok
    /\ Len(call.images) <= MAX_THUMBNAILS
    /\ \A i, j \in DOMAIN call.images :
          call.images[i].url = call.images[j].url => i = j

(* C28: a thumbnail is written to disk exactly when its fetch succeeded and  *)
(* its size is at least MIN_IMAGE_SIZE; a thumbnail of exactly               *)
(* MIN_IMAGE_SIZE bytes is written.                                          *)
C28_AcceptedIffAtLeastMinSize ==
    ( returned.op = "thumbs" /\ PlainThumbnails )
    => \A i \in DOMAIN call.images :
          i \in Range(returned.saved)
             <=> ( call.images[i].fetched /\ call.images[i].size >= MIN_IMAGE_SIZE )

\* the course of the card is in a list of listings
CardCourseIn(data) == \E i \in DOMAIN data : data[i].course_link = Abs("A")

(* C29: when no thumbnail of a card was written (every fetch failed, every   *)
(* image was too small, or collecting the thumbnails raised), the card's     *)
(* course is still in the courses of the stage, and in courses_list.json     *)
(* once the run has saved.                                                   *)
C29_ListingKeptWithoutAssets ==
    /\ ( returned.op \in {"thumbs", "thumbs_saved"} /\ returned.saved = << >> )
          => CardCourseIn(current_data["courses"])
    /\ ( returned.op = "thumbs_saved" /\ returned.saved = << >> )
          => /\ files["courses"].exists
             /\ CardCourseIn(files["courses"].data)

\* a run saved the course of a card none of whose images was written: the
\* fetch of one failed and another one was too small
C29_SavedWithEveryAssetRejected ==
    /\ returned.op = "thumbs_saved"
    /\ returned.saved = << >>
    /\ \E i \in DOMAIN call.images : ~call.images[i].fetched
    /\ \E i \in DOMAIN call.images :
          call.images[i].fetched /\ call.images[i].size < MIN_IMAGE_SIZE
    /\ CardCourseIn(files["courses"].data)

(* C30: the browser a task opens is its own: no two workers have the same   *)
(* browser, a worker calls methods of the page of its own browser only, and  *)
(* once the worker has left its function, by whatever path, its browser is   *)
(* closed.                                                                   *)
C30_BrowserOwnedAndClosed ==
    /\ \A i, j \in DOMAIN tasks :
          (tasks[i].browser # 0 /\ tasks[i].browser = tasks[j].browser) => i = j
    /\ \A i \in DOMAIN tasks : tasks[i].used \subseteq {tasks[i].browser}
    /\ \A i \in DOMAIN tasks : tasks[i].status = "exited" => ~tasks[i].open
    /\ \A i \in DOMAIN tasks : tasks[i].open => tasks[i].status # "start"

\* one task has been left by an exception while the other one, whose page
\* failed to load, is still about to leave; both used their pages
C30_ExceptionExitBesideRunningTask ==
    /\ Len(tasks) = 2
    /\ tasks[1].status = "exited" /\ tasks[1].exit = "exception"
    /\ tasks[2].status = "closing" /\ tasks[2].exit = "load_failed"
    /\ tasks[2].open
    /\ tasks[1].used # {} /\ tasks[2].used # {}

\* the collections of a run that its stages have filled before the Details stage
EarlierTypes == {"main_categories", "sub_categories", "courses"}

(* C31: a step of the Details stage or of the change detection that follows  *)
(* the Listings stage leaves the run's main categories, subcategories and    *)
(* courses and the loaded previous snapshot as they are; the snapshot files  *)
(* change in the save step only.                                             *)
C31_DetailsAndCompareLeaveEntities ==
    [][ /\ pc \in {"listings_finish", "details", "details_pool"}
            => /\ \A t \in EarlierTypes : current_data'[t] = current_data[t]
               /\ previous_data' = previous_data
        /\ files' # files => (pc = "save" /\ pc' = "done") ]_vars

\* the Details pool of a later run of the incremental crawler has produced a
\* detail, beside the run's courses and a loaded snapshot with courses
C31_DetailCollectedBesideSnapshot ==
    /\ crawler = "incr"
    /\ pc = "details_pool"
    /\ current_data["course_details"] # << >>
    /\ current_data["courses"] # << >>
    /\ previous_data["courses"] # << >>

\* the call compares the main categories or the subcategories
CategoryCompare ==
    /\ returned.op = "compare"
    /\ call.data_type \in {"main_categories", "sub_categories"}

(* C32: for the main categories and the subcategories the `updated` set is   *)
(* empty and every key found in both the run's list and the previous list is *)
(* `unchanged`, whatever the names, parents and collection times of the      *)
(* items are; the statistics count the same.                                 *)
C32_CategoriesNeverUpdated ==
    CategoryCompare
    => /\ returned.changes.updated = {}
       /\ returned.changes.unchanged
            = Keys(call.data_type, call.current) \cap Keys(call.data_type, call.previous)
       /\ incremental_stats[call.data_type].updated = 0
       /\ incremental_stats[call.data_type].unchanged
            = Cardinality(Keys(call.data_type, call.current)
                            \cap Keys(call.data_type, call.previous))

\* a category link is in both lists under another name and collection time,
\* and is classified unchanged
C32_RenamedCategoryUnchanged ==
    /\ CategoryCompare
    /\ \E i \in DOMAIN call.current, j \in DOMAIN call.previous :
          /\ ItemUrl(call.data_type, call.current[i])
               = ItemUrl(call.data_type, call.previous[j])
          /\ call.current[i].main_category # call.previous[j].main_category
          /\ call.current[i].collected_at # call.previous[j].collected_at
          /\ ItemUrl(call.data_type, call.current[i]) \in returned.changes.unchanged

CategoryTypes == {"main_categories", "sub_categories"}

(* C33: after a run of the incremental crawler has saved, main_categories    *)
(* .json and sub_categories.json hold exactly the main categories and the    *)
(* subcategories of that run, whatever the previous snapshot held.           *)
C33_CategoriesPersistedAsCollected ==
    IncrementalRunSaved
    => \A t \in CategoryTypes :
          /\ files[t].exists
          /\ files[t].data = current_data[t]

\* a run that found subcategories saved while its previous snapshot held a
\* subcategory the run did not find: the file holds the run's ones alone
C33_SavedOverDifferentSnapshot ==
    /\ IncrementalRunSaved
    /\ current_data["sub_categories"] # << >>
    /\ UrlsOf("sub_categories", previous_data["sub_categories"])
          \ UrlsOf("sub_categories", current_data["sub_categories"]) # {}
    /\ files["sub_categories"].data = current_data["sub_categories"]

\* the futures are those of the Listings stage
ListingFutures == pc \in {"listings_pool", "listings_finish", "details"}

\* the Listings futures whose result the driver did not read
Discarded == { i \in DOMAIN tasks : tasks[i].consumed = "timeout" }

(* C34: the course URLs registered by a Listings task whose result the       *)
(* driver discarded stay in seen_urls for the rest of the stage, are not     *)
(* among the courses the stage collected, and no other task of the stage     *)
(* has collected them.                                                       *)
C34_DiscardedUrlsStayRegistered ==
    ListingFutures
    => \A i \in Discarded :
          \A u \in UrlsOf("courses", tasks[i].collected) :
             /\ u \in seen_urls
             /\ u \notin UrlsOf("courses", current_data["courses"])
             /\ \A j \in DOMAIN tasks \ {i} :
                   u \notin UrlsOf("courses", tasks[j].collected)

(* C35: a listing extraction called with a limit max_courses returns at most *)
(* max_courses courses of its subcategory, whatever cards are passed over    *)
(* and whichever cards fail after their course was recorded.                 *)
C35_AtMostMaxCourses ==
    returned.op = "limit" => Len(returned.collected) <= call.max_courses

(* C36: the save step of the full crawler writes the file of an entity type  *)
(* exactly when the list of that type is non-empty and passes the validator  *)
(* of the type: nine named main categories, at least forty named             *)
(* subcategories, no course and no course detail with the placeholder title. *)
C36_FileWrittenIffValid ==
    returned.op = "save"
    => \A t \in DataTypes :
          /\ files[t].exists
                <=> ( call.data[t] # << >> /\ _validate_data(t, call.data[t]) )
          /\ files[t].exists => files[t].data = call.data[t]

\* the step is the start of a run: __init__ and _load_previous_data
RunStarts == pc \in {"idle", "done", "aborted"} /\ pc' = "seed"

(* C37: _load_previous_data sets is_first_run exactly when one of the four   *)
(* snapshot files is missing; a file that is there but does not parse gives  *)
(* empty previous data of its type and, on its own, no first run; after the  *)
(* load the flag keeps its value to the end of the run, where it is logged.  *)
C37_FirstRunIffFileMissing ==
    [][ /\ RunStarts
            => /\ is_first_run' <=> \E t \in DataTypes : ~files[t].exists
               /\ \A t \in DataTypes :
                     (files[t].exists /\ ~Parses(files[t]))
                        => previous_data'[t] = << >>
        /\ ~RunStarts => is_first_run' = is_first_run
        /\ (pc = "save" /\ pc' = "done") => run_log'.first_run = is_first_run ]_vars

\* a run over a directory with all four files, one of them not parsable, has
\* come to its Details stage: no first run, and nothing loaded for that type
C37_UnparsableFileNoFirstRun ==
    /\ pc = "details"
    /\ ~is_first_run
    /\ \E t \in DataTypes :
          /\ files[t].exists /\ ~Parses(files[t])
          /\ previous_data[t] = << >>
    /\ \E t \in DataTypes : previous_data[t] # << >>

\* the URL has a scheme, and a host when its scheme takes one
AbsoluteUrl(url) ==
    /\ url.scheme # ""
    /\ url.scheme # "data" => url.host # ""

(* C38: _normalize_url returns an absolute URL whose scheme is not the       *)
(* misspelt one: a URL beginning with "//" gets the scheme https, a URL      *)
(* without scheme and host is resolved against the base URL, and a URL       *)
(* beginning with "hhttps://" comes back beginning with "https://".          *)
C38_NormalizedAbsoluteWithoutTypo ==
    returned.op = "normalize"
    => LET raw == call.url
           url == returned.url
       IN  /\ AbsoluteUrl(url)
           /\ url.scheme # "hhttps"
           /\ (raw.scheme = "" /\ raw.host # "")
                 => url = [raw EXCEPT !.scheme = "https"]
           /\ (raw.scheme = "" /\ raw.host = "")
                 => url = [scheme |-> BaseUrl.scheme, host |-> BaseUrl.host,
                           rooted |-> TRUE, path |-> raw.path]
           /\ raw.scheme = "hhttps"
                 => ( url.scheme = "https" /\ url.host = raw.host )

=============================================================================
